---- MODULE Spec2Model ----
(***************************************************************************)
(* A model of the OAT file writer (OatWriter) of platform_art: the layout  *)
(* passes of the constructor, the write passes of OatWriter::Write, and    *)
(* the traversal ProcessDexMethods that both are built on.                 *)
(***************************************************************************)
EXTENDS Integers, Sequences, FiniteSets, TLC

(***************************************************************************)
(* Bounds of the model.                                                    *)
(***************************************************************************)
\* dex files handed to the writer
MaxDexFiles == 2
\* class definitions, summed over all dex files
MaxClassDefs == 2
\* encoded methods, summed over all classes
MaxMethods == 2
\* the same three bounds for the runs on a sink that may fail
MaxIODexFiles == 1
MaxIOClassDefs == 1
MaxIOMethods == 2
\* the same three bounds for the runs of the constructor alone, on dex files
\* of any location length and file size
MaxLayoutDexFiles == 2
MaxLayoutClassDefs == 2
MaxLayoutMethods == 1
\* the same three bounds for the runs of the compilation before the writer
MaxCompileDexFiles == 2
MaxCompileClassDefs == 3
MaxCompileMethods == 1
\* thread_count_: the tasks ForAll adds to the thread pool
ThreadCount == 2

\* the ForAll of the threads: class definitions and methods of its dex file,
\* the largest begin and the most tasks
MaxForAllClassDefs == 2
MaxForAllMethods == 3
MaxForAllBegin == 1
MaxWorkUnits == 3
\* the calls of RecordClassStatus: classes and threads
MaxStatusClassDefs == 2
StatusThreads == 2
\* the stack: its threads, the calls of each, the largest capacity and the
\* most slots of a bump
StackThreads == 2
MaxStackCalls == 2
MaxCapacity == 3
MaxNumSlots == 2

(***************************************************************************)
(* Program constants.                                                      *)
(***************************************************************************)
kPageSize == 4096
kArmAlignment == 8
kX86Alignment == 16
SizeofOatHeader == 80
SizeofOatMethodHeader == 4
SizeofOatMethodOffsets == 28
SizeofUint32 == 4
SizeofUint16 == 2
kDexAlignment == 4
kWordBits == 32
kStackAlignment == 16

kOatClassAllCompiled == "kOatClassAllCompiled"
kOatClassSomeCompiled == "kOatClassSomeCompiled"
kOatClassNoneCompiled == "kOatClassNoneCompiled"

InstructionSets == {"kThumb2", "kX86"}

\* a rounding down
RoundDown(x, n) == x - (x % n)

\* a rounding that leaves the offset where it is
RoundUpNot(x, n) == x

RoundUp(x, n) == ((x + n - 1) \div n) * n

(***************************************************************************)
(* Blobs.  A blob's bytes are abstracted to a content identifier; two      *)
(* blobs have identical bytes iff they have the same identifier.  0 is the *)
(* empty vector.  The object handed to the writer is a pointer.            *)
(***************************************************************************)
ContentSize == <<32, 16, 1>>

SizeOfContent(c) == IF c = 0 THEN 0 ELSE ContentSize[c]

\* DedupeSet::Add: the one stored vector whose bytes equal the argument's
DedupeSetAdd(set, content) == <<set, content>>

DeduplicateCode(code) == DedupeSetAdd("dedupe_code_", code)

DeduplicateMappingTable(code) == DedupeSetAdd("dedupe_mapping_table_", code)

DeduplicateVMapTable(code) == DedupeSetAdd("dedupe_vmap_table_", code)

DeduplicateGCMap(code) == DedupeSetAdd("dedupe_gc_map_", code)

\* vector::size() of the object a pointer names
BlobSize(ptr) == SizeOfContent(ptr[2])

NullPtr == <<"nullptr", 0>>

\* CompiledMethod's constructor: every blob goes through the driver's sets
NewCompiledMethod(quick, portable, gc, mapping, vmap, cfi) ==
  [is_null |-> FALSE,
   cfi_info_ |-> cfi,
   quick_code_ |-> IF quick = 0 THEN NullPtr ELSE DeduplicateCode(quick),
   portable_code_ |-> portable,
   gc_map_ |-> DeduplicateGCMap(gc),
   mapping_table_ |-> DeduplicateMappingTable(mapping),
   vmap_table_ |-> DeduplicateVMapTable(vmap),
   frame_size_in_bytes_ |-> 32 + 16 * quick,
   core_spill_mask_ |-> 1 + quick,
   fp_spill_mask_ |-> gc]

NullCompiledMethod ==
  [is_null |-> TRUE, cfi_info_ |-> FALSE, quick_code_ |-> NullPtr, portable_code_ |-> FALSE,
   gc_map_ |-> NullPtr, mapping_table_ |-> NullPtr, vmap_table_ |-> NullPtr,
   frame_size_in_bytes_ |-> 0, core_spill_mask_ |-> 0, fp_spill_mask_ |-> 0]

\* What of the driver and of its compiled methods can change after the
\* compilation: the call frame information it collects (a vector, or none
\* when no GDB information is generated) and the oatdata offsets added to
\* compiled methods with portable code; and whether it compiles an image.
NewCompilerDriver(is_image, generate_gdb) ==
  [image_ |-> is_image, has_cfi_info_ |-> generate_gdb, cfi_info_ |-> <<>>,
   oatdata_offsets_to_compiled_code_offset_ |-> <<>>]

\* The driver's compiled_methods_ table, by method index (index 0 is an
\* abstract method: no entry).
CompiledMethodTable ==
  << NullCompiledMethod,
     NewCompiledMethod(1, FALSE, 1, 1, 1, TRUE),
     NewCompiledMethod(1, FALSE, 1, 2, 0, FALSE),
     NewCompiledMethod(2, FALSE, 2, 1, 3, TRUE),
     NewCompiledMethod(0, TRUE, 0, 0, 0, FALSE) >>

MethodIds == 0..(Len(CompiledMethodTable) - 1)

GetCompiledMethod(method_idx) == CompiledMethodTable[method_idx + 1]

\* CompiledCode::AlignCode(offset, instruction_set)
CodeAlignment(isa) == IF isa = "kX86" THEN kX86Alignment ELSE kArmAlignment

AlignCode(offset, isa) == RoundUp(offset, CodeAlignment(isa))

\* CompiledCode::CodeDelta(): Thumb2 code addresses have the low bit set
CodeDelta(isa) == IF isa = "kThumb2" THEN 1 ELSE 0

\* the ten trampolines of an image build, in the order of DO_TRAMPOLINE
TrampolineNames ==
  << "interpreter_to_interpreter_bridge_", "interpreter_to_compiled_code_bridge_",
     "jni_dlsym_lookup_", "portable_imt_conflict_trampoline_",
     "portable_resolution_trampoline_", "portable_to_interpreter_bridge_",
     "quick_generic_jni_trampoline_", "quick_imt_conflict_trampoline_",
     "quick_resolution_trampoline_", "quick_to_interpreter_bridge_" >>

\* sizes of the stubs the driver creates (CompilerDriver::Create...)
TrampolineSize(isa) ==
  IF isa = "kX86" THEN <<7, 7, 5, 12, 12, 16, 9, 7, 7, 3>>
  ELSE <<12, 12, 4, 6, 8, 8, 10, 12, 12, 2>>

(***************************************************************************)
(* Inputs: the dex files.                                                  *)
(***************************************************************************)
NoDataClassDef ==
  [has_class_data |-> FALSE, direct_methods |-> <<>>, virtual_methods |-> <<>>]

\* class definitions with exactly n encoded methods
ClassDefsWith(n) ==
  { [has_class_data |-> TRUE,
     direct_methods |-> SubSeq(s, 1, k),
     virtual_methods |-> SubSeq(s, k + 1, n)] : s \in [1..n -> MethodIds], k \in 0..n }
  \cup (IF n = 0 THEN {NoDataClassDef} ELSE {})

RECURSIVE ClassDefSeqs(_, _)
\* sequences of at most c class definitions with at most m methods in all
ClassDefSeqs(c, m) ==
  IF c = 0 THEN {<<>>}
  ELSE {<<>>} \cup
       UNION { UNION { { <<cd>> \o rest : rest \in ClassDefSeqs(c - 1, m - n) }
                       : cd \in ClassDefsWith(n) } : n \in 0..m }

\* location size and file size of the i-th dex file
DexLocationSize == <<3, 6, 5>>

DexFileSize == <<113, 112, 114>>

\* the ways to cut a sequence of n classes into d consecutive runs
Cuts(d, n) ==
  { f \in [0..d -> 0..n] :
      /\ f[0] = 0
      /\ f[d] = n
      /\ \A i \in 1..d : f[i - 1] <= f[i] }

DexFilesOf(cds, d, f) ==
  [i \in 1..d |->
     [location_size |-> DexLocationSize[((i - 1) % Len(DexLocationSize)) + 1],
      file_size |-> DexFileSize[((i - 1) % Len(DexFileSize)) + 1],
      class_defs |-> SubSeq(cds, f[i - 1] + 1, f[i])]]

DexFilesUpTo(max_dex_files, max_class_defs, max_methods) ==
  UNION { { DexFilesOf(cds, d, f) : f \in Cuts(d, Len(cds)) } :
            cds \in ClassDefSeqs(max_class_defs, max_methods), d \in 0..max_dex_files }

InputDexFiles == DexFilesUpTo(MaxDexFiles, MaxClassDefs, MaxMethods)

InputIODexFiles == DexFilesUpTo(MaxIODexFiles, MaxIOClassDefs, MaxIOMethods)

\* lengths of location strings and sizes of dex files that leave the layout
\* offset at every remainder modulo 4 and take it over a page boundary
LayoutLocationSizes == {5, 6}

LayoutFileSizes == {113, 4002}

InputLayoutDexFiles ==
  UNION { { [i \in 1..d |-> [location_size |-> loc[i], file_size |-> size[i],
                             class_defs |-> SubSeq(cds, f[i - 1] + 1, f[i])]] :
              f \in Cuts(d, Len(cds)), loc \in [1..d -> LayoutLocationSizes],
              size \in [1..d -> LayoutFileSizes] } :
            cds \in ClassDefSeqs(MaxLayoutClassDefs, MaxLayoutMethods),
            d \in 0..MaxLayoutDexFiles }

\* the image file location is empty exactly in an image build (the
\* constructor's CHECK)
ImageFileLocationSize(image) == IF image THEN 0 ELSE 9

\* positions the sink may be at when Write is called
FileOffsets == {0, 52}

(***************************************************************************)
(* ProcessDexMethods: the callbacks it makes, in order.                    *)
(***************************************************************************)
Call(name, dex, class_def_index, class_def_method_index, method_idx, direct) ==
  [call |-> name, dex |-> dex, class_def_index |-> class_def_index,
   class_def_method_index |-> class_def_method_index,
   method_idx |-> method_idx, direct |-> direct]

\* loops that take the virtual methods before the direct ones
MethodCallsVirtualFirst(dex, class_def_index, cd) ==
  IF ~cd.has_class_data THEN <<>>
  ELSE LET nd == Len(cd.direct_methods)
           nv == Len(cd.virtual_methods)
       IN [i \in 1..(nd + nv) |->
             IF i <= nv
             THEN Call("ProcessMethod", dex, class_def_index, i - 1,
                       cd.virtual_methods[i], FALSE)
             ELSE Call("ProcessMethod", dex, class_def_index, i - 1,
                       cd.direct_methods[i - nv], TRUE)]

\* loops that pass over an entry whose method index occurred before in the
\* class
MethodCallsSkipRepeats(dex, class_def_index, cd) ==
  IF ~cd.has_class_data THEN <<>>
  ELSE LET nd == Len(cd.direct_methods)
           all == cd.direct_methods \o cd.virtual_methods
           first == {i \in 1..Len(all) : \A j \in 1..(i - 1) : all[j] # all[i]}
           nth(n) == CHOOSE i \in first : Cardinality({j \in first : j <= i}) = n
       IN [n \in 1..Cardinality(first) |->
             Call("ProcessMethod", dex, class_def_index, n - 1, all[nth(n)],
                  nth(n) <= nd)]

\* the two while loops over the direct and the virtual methods of a class
MethodCalls(dex, class_def_index, cd) ==
  IF ~cd.has_class_data THEN <<>>
  ELSE LET nd == Len(cd.direct_methods)
           nv == Len(cd.virtual_methods)
       IN [i \in 1..(nd + nv) |->
             IF i <= nd
             THEN Call("ProcessMethod", dex, class_def_index, i - 1,
                       cd.direct_methods[i], TRUE)
             ELSE Call("ProcessMethod", dex, class_def_index, i - 1,
                       cd.virtual_methods[i - nd], FALSE)]

ClassCalls(dex, class_def_index, cd) ==
  <<Call("StartClass", dex, class_def_index, 0, 0, FALSE)>>
  \o MethodCalls(dex, class_def_index, cd)
  \o <<Call("EndClass", dex, class_def_index, 0, 0, FALSE)>>

RECURSIVE DexCalls(_, _, _)
DexCalls(dfs, dex, c) ==
  IF c > Len(dfs[dex].class_defs) THEN <<>>
  ELSE ClassCalls(dex, c - 1, dfs[dex].class_defs[c]) \o DexCalls(dfs, dex, c + 1)

RECURSIVE TraversalCallsFrom(_, _)
TraversalCallsFrom(dfs, dex) ==
  IF dex > Len(dfs) THEN <<>>
  ELSE DexCalls(dfs, dex, 1) \o TraversalCallsFrom(dfs, dex + 1)

TraversalCalls(dfs) == TraversalCallsFrom(dfs, 1)

(***************************************************************************)
(* The writer's objects.                                                   *)
(***************************************************************************)
OatMethodOffsets(code_offset, frame_size_in_bytes, core_spill_mask, fp_spill_mask, mapping_table_offset, vmap_table_offset, gc_map_offset) ==
  [code_offset_ |-> code_offset,
   frame_size_in_bytes_ |-> frame_size_in_bytes,
   core_spill_mask_ |-> core_spill_mask,
   fp_spill_mask_ |-> fp_spill_mask,
   mapping_table_offset_ |-> mapping_table_offset,
   vmap_table_offset_ |-> vmap_table_offset,
   gc_map_offset_ |-> gc_map_offset]

\* BitVector::GetSizeOf() of a vector created for num_bits bits
BitVectorSizeOf(num_bits) == ((num_bits + kWordBits - 1) \div kWordBits) * SizeofUint32

\* a classification that tests "all compiled" first
OatClassTypeAllFirst(num_non_null_compiled_methods, num_methods) ==
  IF num_non_null_compiled_methods = num_methods THEN kOatClassAllCompiled
  ELSE IF num_non_null_compiled_methods = 0 THEN kOatClassNoneCompiled
  ELSE kOatClassSomeCompiled

\* the type_ branch of OatClass::OatClass
OatClassType(num_non_null_compiled_methods, num_methods) ==
  IF num_non_null_compiled_methods = 0 THEN kOatClassNoneCompiled
  ELSE IF num_non_null_compiled_methods = num_methods THEN kOatClassAllCompiled
  ELSE kOatClassSomeCompiled

\* a loop that sets the bit of every method slot
MethodBitmapAllSet(compiled_methods) == 0..(Len(compiled_methods) - 1)

\* the bits the loop of OatClass::OatClass sets with method_bitmap_->SetBit(i)
MethodBitmap(compiled_methods) ==
  {i \in 0..(Len(compiled_methods) - 1) : ~compiled_methods[i + 1].is_null}

RECURSIVE OffsetsFromOatClass(_, _, _)
\* the loop of OatClass::OatClass over the method slots
OffsetsFromOatClass(compiled_methods, i, next) ==
  IF i > Len(compiled_methods) THEN <<>>
  ELSE IF compiled_methods[i].is_null
       THEN <<0>> \o OffsetsFromOatClass(compiled_methods, i + 1, next)
       ELSE <<next>> \o OffsetsFromOatClass(compiled_methods, i + 1,
                                             next + SizeofOatMethodOffsets)

OatClassNew(offset, compiled_methods, num_non_null_compiled_methods, status) ==
  LET num_methods == Len(compiled_methods)
      type == OatClassType(num_non_null_compiled_methods, num_methods)
      some == (type = kOatClassSomeCompiled)
      bitmap_size == IF some THEN BitVectorSizeOf(num_methods) ELSE 0
      first == SizeofUint16 + SizeofUint16
               + (IF some THEN SizeofUint32 + bitmap_size ELSE 0)
  IN [offset_ |-> offset,
      compiled_methods_ |-> compiled_methods,
      type_ |-> type,
      status_ |-> status,
      has_method_bitmap_ |-> some,
      method_bitmap_ |-> IF some THEN MethodBitmap(compiled_methods) ELSE {},
      method_bitmap_size_ |-> bitmap_size,
      oat_method_offsets_offsets_from_oat_class_ |->
          OffsetsFromOatClass(compiled_methods, 1, first),
      method_offsets_ |->
          [j \in 1..num_non_null_compiled_methods |->
             OatMethodOffsets(0, 0, 0, 0, 0, 0, 0)]]

\* a SizeOf that forgets the word holding the bitmap's size
OatClassSizeOfNoBitmapSize(oat_class) ==
  SizeofUint16 + SizeofUint16
  + oat_class.method_bitmap_size_
  + SizeofOatMethodOffsets * Len(oat_class.method_offsets_)

OatClassSizeOf(oat_class) ==
  SizeofUint16 + SizeofUint16
  + (IF oat_class.method_bitmap_size_ = 0 THEN 0 ELSE SizeofUint32)
  + oat_class.method_bitmap_size_
  + SizeofOatMethodOffsets * Len(oat_class.method_offsets_)

OatDexFileNew(offset, dex_file) ==
  [offset_ |-> offset,
   dex_file_location_size_ |-> dex_file.location_size,
   dex_file_offset_ |-> 0,
   methods_offsets_ |-> [k \in 1..Len(dex_file.class_defs) |-> 0]]

\* a SizeOf that forgets the dex file's checksum
OatDexFileSizeOfNoChecksum(oat_dex_file) ==
  SizeofUint32 + oat_dex_file.dex_file_location_size_ + SizeofUint32
  + SizeofUint32 * Len(oat_dex_file.methods_offsets_)

OatDexFileSizeOf(oat_dex_file) ==
  SizeofUint32 + oat_dex_file.dex_file_location_size_ + SizeofUint32 + SizeofUint32
  + SizeofUint32 * Len(oat_dex_file.methods_offsets_)

\* OatHeader::UpdateChecksum: the checksum is kept as the list of what was
\* folded into it
UpdateChecksum(w, what, size) ==
  [w EXCEPT !.oat_header_.checksum_ = Append(@, [what |-> what, size |-> size])]

\* the writer as its member initializers leave it
NewOatWriter ==
  [oat_header_ |-> [executable_offset_ |-> 0,
                    trampoline_offsets_ |-> [k \in 1..Len(TrampolineNames) |-> 0],
                    checksum_ |-> <<>>],
   compiler_driver_ |-> NewCompilerDriver(FALSE, FALSE),
   art_methods_ |-> <<>>,
   method_info_ |-> <<>>,
   oat_dex_files_ |-> <<>>,
   oat_classes_ |-> <<>>,
   code_offsets_ |-> <<>>,
   gc_map_offsets_ |-> <<>>,
   mapping_table_offsets_ |-> <<>>,
   vmap_table_offsets_ |-> <<>>,
   size_ |-> 0,
   size_dex_file_alignment_ |-> 0,
   size_executable_offset_alignment_ |-> 0,
   size_oat_header_ |-> 0,
   size_oat_header_image_file_location_ |-> 0,
   size_dex_file_ |-> 0,
   size_trampolines_ |-> [k \in 1..Len(TrampolineNames) |-> 0],
   size_trampoline_alignment_ |-> 0,
   size_method_header_ |-> 0,
   size_code_ |-> 0,
   size_code_alignment_ |-> 0,
   size_mapping_table_ |-> 0,
   size_vmap_table_ |-> 0,
   size_gc_map_ |-> 0,
   size_oat_dex_file_location_size_ |-> 0,
   size_oat_dex_file_location_data_ |-> 0,
   size_oat_dex_file_location_checksum_ |-> 0,
   size_oat_dex_file_offset_ |-> 0,
   size_oat_dex_file_methods_offsets_ |-> 0,
   size_oat_class_type_ |-> 0,
   size_oat_class_status_ |-> 0,
   size_oat_class_method_bitmaps_ |-> 0,
   size_oat_class_method_offsets_ |-> 0]

(***************************************************************************)
(* The dedup tables: SafeMap from blob pointer to offset, kept as the      *)
(* sequence of its entries.                                                *)
(***************************************************************************)
\* a find that never finds
SafeMapHasNever(map, key) == FALSE

SafeMapHas(map, key) == \E i \in 1..Len(map) : map[i].key = key

SafeMapGet(map, key) == map[CHOOSE i \in 1..Len(map) : map[i].key = key].value

SafeMapPut(map, key, value) == Append(map, [key |-> key, value |-> value])

MapKinds == <<"gc_map", "mapping_table", "vmap_table">>

\* MapBinder::GetMap
BinderGetMap(kind, compiled_method) ==
  IF kind = "gc_map" THEN compiled_method.gc_map_
  ELSE IF kind = "mapping_table" THEN compiled_method.mapping_table_
  ELSE compiled_method.vmap_table_

\* MapBinder::GetOffset
BinderGetOffset(kind, method_offsets) ==
  IF kind = "gc_map" THEN method_offsets.gc_map_offset_
  ELSE IF kind = "mapping_table" THEN method_offsets.mapping_table_offset_
  ELSE method_offsets.vmap_table_offset_

\* binders of which the vmap table's stores into the mapping table's field
BinderSetOffsetNoVmap(kind, method_offsets, offset) ==
  IF kind = "gc_map" THEN [method_offsets EXCEPT !.gc_map_offset_ = offset]
  ELSE [method_offsets EXCEPT !.mapping_table_offset_ = offset]

\* MapBinder::SetOffset
BinderSetOffset(kind, method_offsets, offset) ==
  IF kind = "gc_map" THEN [method_offsets EXCEPT !.gc_map_offset_ = offset]
  ELSE IF kind = "mapping_table" THEN [method_offsets EXCEPT !.mapping_table_offset_ = offset]
  ELSE [method_offsets EXCEPT !.vmap_table_offset_ = offset]

\* binders of which the vmap table's uses the table of the mapping tables
BinderDedupeMapNameShared(kind) ==
  IF kind = "gc_map" THEN "gc_map_offsets_" ELSE "mapping_table_offsets_"

\* MapBinder::GetDedupeMap: which table of the writer the kind uses
BinderDedupeMapName(kind) ==
  IF kind = "gc_map" THEN "gc_map_offsets_"
  ELSE IF kind = "mapping_table" THEN "mapping_table_offsets_"
  ELSE "vmap_table_offsets_"

BinderGetDedupeMap(kind, w) ==
  LET name == BinderDedupeMapName(kind)
  IN IF name = "gc_map_offsets_" THEN w.gc_map_offsets_
     ELSE IF name = "mapping_table_offsets_" THEN w.mapping_table_offsets_
     ELSE w.vmap_table_offsets_

\* a Put that stores nothing
BinderPutDedupeMapNot(kind, w, key, value) == w

BinderPutDedupeMap(kind, w, key, value) ==
  LET name == BinderDedupeMapName(kind)
  IN IF name = "gc_map_offsets_"
     THEN [w EXCEPT !.gc_map_offsets_ = SafeMapPut(@, key, value)]
     ELSE IF name = "mapping_table_offsets_"
     THEN [w EXCEPT !.mapping_table_offsets_ = SafeMapPut(@, key, value)]
     ELSE [w EXCEPT !.vmap_table_offsets_ = SafeMapPut(@, key, value)]

(***************************************************************************)
(* The output sink (OutputStream).  fail_at names the operation of the     *)
(* running step that fails (0: none); nops counts the operations of the    *)
(* step.  A failed operation leaves the position where it was.             *)
(***************************************************************************)
NewSink(pos) ==
  [pos |-> pos, written |-> 0, skipped |-> 0, nops |-> 0, fail_at |-> 0,
   failed |-> FALSE, failed_op |-> "", writes_after_failure |-> 0, log |-> <<>>,
   dchecks |-> <<>>]

\* OutputStream::WriteFully(buffer, byte_count)
WriteFully(o, what, byte_count) ==
  LET k == o.nops + 1
      after == o.writes_after_failure + (IF o.failed THEN 1 ELSE 0)
  IN IF o.fail_at = k
     THEN [ok |-> FALSE,
           out |-> [o EXCEPT !.nops = k, !.failed = TRUE,
                             !.failed_op = IF o.failed THEN @ ELSE what,
                             !.writes_after_failure = after]]
     ELSE [ok |-> TRUE,
           out |-> [o EXCEPT !.nops = k, !.pos = @ + byte_count,
                             !.written = @ + byte_count,
                             !.writes_after_failure = after,
                             !.log = Append(@, [what |-> what, pos |-> o.pos,
                                                size |-> byte_count])]]

\* OutputStream::Seek(offset, kSeekSet or kSeekCurrent): the new position,
\* or -1
Seek(o, what, new_pos) ==
  LET k == o.nops + 1
  IN IF o.fail_at = k
     THEN [ret |-> -1,
           out |-> [o EXCEPT !.nops = k, !.failed = TRUE,
                             !.failed_op = IF o.failed THEN @ ELSE what]]
     ELSE [ret |-> new_pos,
           out |-> [o EXCEPT !.nops = k, !.pos = new_pos,
                             !.skipped = @ + (new_pos - o.pos)]]

\* DCHECK_OFFSET() and DCHECK_OFFSET_() where r, a record with the sink out,
\* has come to with ok: the relative offset that is compared and the position
\* "out->Seek(0, kSeekCurrent)" gives are noted with the sink; the seek is
\* not counted as an operation of the sink
DCheckOffset(r, site, relative_offset) ==
  IF ~r.ok THEN r
  ELSE [r EXCEPT !.out.dchecks =
                    Append(@, [site |-> site, relative_offset |-> relative_offset,
                               position |-> r.out.pos])]

(***************************************************************************)
(* The method processors.  A processor is a record: its own fields, the    *)
(* writer w it works on, the sink out, and ok, the value its last callback *)
(* returned.  visits records, per compiled method seen, what the pass      *)
(* decided.                                                                *)
(***************************************************************************)
NewProcessor(w, o, offset, file_offset, isa) ==
  [ok |-> TRUE, offset_ |-> offset, dex_file_ |-> 0, class_def_index_ |-> 0,
   oat_class_index_ |-> 0, method_offsets_index_ |-> 0,
   compiled_methods_ |-> <<>>, num_non_null_compiled_methods_ |-> 0,
   w |-> w, out |-> o, file_offset_ |-> file_offset, isa |-> isa, visits |-> <<>>]

\* the processor of the next pass, constructed on the offset, the writer and
\* the sink the last pass left
NextProcessor(p) ==
  [p EXCEPT !.ok = TRUE, !.dex_file_ = 0, !.class_def_index_ = 0,
            !.oat_class_index_ = 0, !.method_offsets_index_ = 0]

Visit(pass, kind, p, call, blob, recorded, cursor, acted) ==
  [pass |-> pass, kind |-> kind, oat_class_index |-> p.oat_class_index_,
   method_offsets_index |-> p.method_offsets_index_,
   class_def_method_index |-> call.class_def_method_index,
   blob |-> blob, recorded |-> recorded, cursor |-> cursor, acted |-> acted,
   entered |-> p.offset_, folded |-> Len(p.w.oat_header_.checksum_)]

\* DexMethodProcessor::StartClass
DexMethodProcessorStartClass(p, call) ==
  [p EXCEPT !.dex_file_ = call.dex, !.class_def_index_ = call.class_def_index,
            !.ok = TRUE]

\* OatDexMethodProcessor::StartClass and EndClass
OatDexMethodProcessorStartClass(p, call) ==
  [DexMethodProcessorStartClass(p, call) EXCEPT !.method_offsets_index_ = 0]

OatDexMethodProcessorEndClass(p) ==
  [p EXCEPT !.oat_class_index_ = @ + 1, !.ok = TRUE]

\* InitOatClassesMethodProcessor
InitOatClassesStartClass(p, call) ==
  [DexMethodProcessorStartClass(p, call) EXCEPT
     !.compiled_methods_ = <<>>, !.num_non_null_compiled_methods_ = 0]

\* a ProcessMethod that counts a method with no compiled method as compiled
InitOatClassesProcessMethodCountAll(p, call) ==
  [p EXCEPT !.compiled_methods_ = Append(@, GetCompiledMethod(call.method_idx)),
            !.num_non_null_compiled_methods_ = @ + 1,
            !.ok = TRUE]

InitOatClassesProcessMethod(p, call) ==
  LET compiled_method == GetCompiledMethod(call.method_idx)
  IN [p EXCEPT !.compiled_methods_ = Append(@, compiled_method),
               !.num_non_null_compiled_methods_ =
                   @ + (IF compiled_method.is_null THEN 0 ELSE 1),
               !.ok = TRUE]

\* the status the driver has for the class: no CompiledClass and not rejected
kStatusNotReady == "kStatusNotReady"

InitOatClassesEndClass(p) ==
  LET oat_class == OatClassNew(p.offset_, p.compiled_methods_,
                               p.num_non_null_compiled_methods_, kStatusNotReady)
  IN [p EXCEPT !.w.oat_classes_ = Append(@, oat_class),
               !.offset_ = @ + OatClassSizeOf(oat_class),
               !.ok = TRUE]

\* OatClass::GetOatMethodOffsetsOffsetFromOatHeader
GetOatMethodOffsetsOffsetFromOatHeader(oat_class, class_def_method_index) ==
  IF oat_class.oat_method_offsets_offsets_from_oat_class_[class_def_method_index + 1] = 0
  THEN 0
  ELSE oat_class.offset_
       + oat_class.oat_method_offsets_offsets_from_oat_class_[class_def_method_index + 1]

\* a ProcessMethod that leaves the driver and the compiled method as they are
DerivedFromCompiledMethodReadOnly(w, oat_class, compiled_method, class_def_method_index, quick_code_offset) == w

\* the "Derived from CompiledMethod" block of InitCodeMethodProcessor::
\* ProcessMethod, as far as it writes to the compiled method and the driver:
\* quick_code_offset is the offset computed before the dedup lookup
DerivedFromCompiledMethod(w, oat_class, compiled_method, class_def_method_index, quick_code_offset) ==
  IF compiled_method.portable_code_
  THEN [w EXCEPT !.compiler_driver_.oatdata_offsets_to_compiled_code_offset_ =
                   Append(@, [oat_class_offset |-> oat_class.offset_,
                              class_def_method_index |-> class_def_method_index,
                              offset |-> GetOatMethodOffsetsOffsetFromOatHeader(
                                           oat_class, class_def_method_index)])]
  ELSE IF w.compiler_driver_.has_cfi_info_ /\ compiled_method.cfi_info_
  THEN [w EXCEPT !.compiler_driver_.cfi_info_ =
                   Append(@, quick_code_offset - w.oat_header_.executable_offset_),
                 !.method_info_ =
                   Append(@, [low_pc |-> quick_code_offset - w.oat_header_.executable_offset_,
                              high_pc |-> quick_code_offset - w.oat_header_.executable_offset_
                                          + BlobSize(compiled_method.quick_code_)])]
  ELSE w

\* InitCodeMethodProcessor::ProcessMethod
InitCodeProcessMethod(p, call) ==
  LET oat_class == p.w.oat_classes_[p.oat_class_index_ + 1]
      compiled_method == oat_class.compiled_methods_[call.class_def_method_index + 1]
      quick_code == compiled_method.quick_code_
      aligned == AlignCode(p.offset_, p.isa)
      code_size == BlobSize(quick_code)
      fresh_offset == aligned + SizeofOatMethodHeader + CodeDelta(p.isa)
      found == SafeMapHas(p.w.code_offsets_, quick_code)
      pw == DerivedFromCompiledMethod(p.w, oat_class, compiled_method,
                                      call.class_def_method_index, fresh_offset)
      quick_code_offset ==
        IF compiled_method.portable_code_ THEN 0
        ELSE IF found THEN SafeMapGet(p.w.code_offsets_, quick_code)
        ELSE fresh_offset
      offset1 ==
        IF compiled_method.portable_code_ THEN p.offset_
        ELSE IF found THEN aligned
        ELSE aligned + SizeofOatMethodHeader + code_size
      w1 ==
        IF compiled_method.portable_code_ \/ found THEN pw
        ELSE UpdateChecksum(
               UpdateChecksum(
                 [pw EXCEPT !.code_offsets_ = SafeMapPut(@, quick_code, fresh_offset)],
                 <<"method_header", quick_code>>, SizeofOatMethodHeader),
               <<"code", quick_code>>, code_size)
      record == OatMethodOffsets(quick_code_offset,
                                 compiled_method.frame_size_in_bytes_,
                                 compiled_method.core_spill_mask_,
                                 compiled_method.fp_spill_mask_, 0, 0, 0)
  IN IF compiled_method.is_null THEN [p EXCEPT !.ok = TRUE]
     ELSE [p EXCEPT
             !.offset_ = offset1,
             !.w = [w1 EXCEPT !.oat_classes_[p.oat_class_index_ + 1]
                                 .method_offsets_[p.method_offsets_index_ + 1] = record],
             !.method_offsets_index_ = @ + 1,
             !.visits = IF compiled_method.portable_code_ THEN @
                        ELSE Append(@, Visit("init", "code", p, call, quick_code,
                                             quick_code_offset, aligned, ~found)),
             !.ok = TRUE]

\* InitImageMethodProcessor::ProcessMethod for a method that is not native:
\* the ArtMethod the class linker resolves for the method is given the
\* method's OatMethodOffsets, or those of a method with no compiled method.
\* art_methods_ holds what was set on the ArtMethods, by class and slot.
InitImageProcessMethod(p, call) ==
  LET oat_class == p.w.oat_classes_[p.oat_class_index_ + 1]
      compiled_method == oat_class.compiled_methods_[call.class_def_method_index + 1]
      offsets == IF compiled_method.is_null
                 THEN OatMethodOffsets(0, kStackAlignment, 0, 0, 0, 0, 0)
                 ELSE oat_class.method_offsets_[p.method_offsets_index_ + 1]
  IN [p EXCEPT
        !.w.art_methods_ =
           (<<p.oat_class_index_, call.class_def_method_index>> :> offsets) @@ @,
        !.method_offsets_index_ = IF compiled_method.is_null THEN @ ELSE @ + 1,
        !.ok = TRUE]

\* InitMapMethodProcessor<MapBinder>::ProcessMethod
InitMapProcessMethod(kind, p, call) ==
  LET oat_class == p.w.oat_classes_[p.oat_class_index_ + 1]
      compiled_method == oat_class.compiled_methods_[call.class_def_method_index + 1]
      map == BinderGetMap(kind, compiled_method)
      map_size == BlobSize(map)
      dedupe_map == BinderGetDedupeMap(kind, p.w)
      found == SafeMapHas(dedupe_map, map)
      old == oat_class.method_offsets_[p.method_offsets_index_ + 1]
      new_offsets ==
        IF map_size = 0 THEN old
        ELSE IF found THEN BinderSetOffset(kind, old, SafeMapGet(dedupe_map, map))
        ELSE BinderSetOffset(kind, old, p.offset_)
      w1 == [p.w EXCEPT !.oat_classes_[p.oat_class_index_ + 1]
                           .method_offsets_[p.method_offsets_index_ + 1] = new_offsets]
      w2 == IF map_size = 0 \/ found THEN w1
            ELSE UpdateChecksum(BinderPutDedupeMap(kind, w1, map, p.offset_),
                                <<kind, map>>, map_size)
  IN IF compiled_method.is_null THEN [p EXCEPT !.ok = TRUE]
     ELSE [p EXCEPT
             !.w = w2,
             !.offset_ = IF map_size = 0 \/ found THEN @ ELSE @ + map_size,
             !.method_offsets_index_ = @ + 1,
             !.visits = Append(@, Visit("init", kind, p, call, map,
                                        BinderGetOffset(kind, new_offsets), p.offset_,
                                        map_size # 0 /\ ~found)),
             !.ok = TRUE]

\* a test that takes every recorded offset for one to be written now
WriteCodeNowAlways(code_offset, offset) == code_offset > 0

\* "if (method_offsets.code_offset_ >= offset_)": the code was not written yet
WriteCodeNow(code_offset, offset) == code_offset >= offset

\* WriteCodeMethodProcessor::ProcessMethod, from the write of the code on;
\* hdr is what the write of the method header returned
WriteCodeBody(p, call, quick_code, visit, hdr) ==
  LET code_size == BlobSize(quick_code)
      code == WriteFully(hdr.out, <<"code", quick_code>>, code_size)
  IN IF ~hdr.ok THEN [p EXCEPT !.out = hdr.out, !.ok = FALSE]
     ELSE IF ~code.ok
     THEN [p EXCEPT !.out = code.out,
                    !.w.size_method_header_ = @ + SizeofOatMethodHeader,
                    !.offset_ = @ + SizeofOatMethodHeader, !.ok = FALSE]
     ELSE DCheckOffset(
            [p EXCEPT !.out = code.out,
                      !.w.size_method_header_ = @ + SizeofOatMethodHeader,
                      !.w.size_code_ = @ + code_size,
                      !.offset_ = @ + SizeofOatMethodHeader + code_size,
                      !.method_offsets_index_ = @ + 1,
                      !.visits = Append(@, visit), !.ok = TRUE],
            <<"code", quick_code>>, p.offset_ + SizeofOatMethodHeader + code_size)

\* WriteCodeMethodProcessor::ProcessMethod, from the dedup test on; pad is
\* what the write of the alignment padding returned
WriteCodeDeduplicated(p, call, quick_code, method_offsets, aligned_offset, pad) ==
  LET now == WriteCodeNow(method_offsets.code_offset_, aligned_offset)
      visit == Visit("write", "code", p, call, quick_code,
                     method_offsets.code_offset_, aligned_offset, now)
      p1 == [p EXCEPT !.out = pad.out,
                      !.w.size_code_alignment_ = @ + (aligned_offset - p.offset_),
                      !.offset_ = aligned_offset]
  IN IF ~pad.ok THEN [p EXCEPT !.out = pad.out, !.ok = FALSE]
     ELSE IF ~now
     THEN DCheckOffset([p1 EXCEPT !.method_offsets_index_ = @ + 1,
                                  !.visits = Append(@, visit), !.ok = TRUE],
                       <<"code", quick_code>>, aligned_offset)
     ELSE WriteCodeBody(p1, call, quick_code, visit,
                        DCheckOffset(
                          WriteFully(pad.out, <<"method_header", quick_code>>,
                                     SizeofOatMethodHeader),
                          <<"method_header", quick_code>>,
                          aligned_offset + SizeofOatMethodHeader))

\* a ProcessMethod that counts a record only for a method with quick code
WriteCodeProcessMethodCountQuick(p, call) ==
  IF p.w.oat_classes_[p.oat_class_index_ + 1]
       .compiled_methods_[call.class_def_method_index + 1].is_null
  THEN [p EXCEPT !.ok = TRUE]
  ELSE IF p.w.oat_classes_[p.oat_class_index_ + 1]
            .compiled_methods_[call.class_def_method_index + 1].quick_code_ = NullPtr
  THEN [p EXCEPT !.ok = TRUE]
  ELSE WriteCodeDeduplicated(
         p, call,
         p.w.oat_classes_[p.oat_class_index_ + 1]
           .compiled_methods_[call.class_def_method_index + 1].quick_code_,
         p.w.oat_classes_[p.oat_class_index_ + 1].method_offsets_[p.method_offsets_index_ + 1],
         AlignCode(p.offset_, p.isa),
         IF AlignCode(p.offset_, p.isa) # p.offset_
         THEN WriteFully(p.out, <<"code_alignment_padding", 0>>,
                         AlignCode(p.offset_, p.isa) - p.offset_)
         ELSE [ok |-> TRUE, out |-> p.out])

\* WriteCodeMethodProcessor::ProcessMethod
WriteCodeProcessMethod(p, call) ==
  LET oat_class == p.w.oat_classes_[p.oat_class_index_ + 1]
      compiled_method == oat_class.compiled_methods_[call.class_def_method_index + 1]
      quick_code == compiled_method.quick_code_
      aligned_offset == AlignCode(p.offset_, p.isa)
      aligned_code_delta == aligned_offset - p.offset_
  IN IF compiled_method.is_null THEN [p EXCEPT !.ok = TRUE]
     ELSE IF quick_code = NullPtr
     THEN [p EXCEPT !.method_offsets_index_ = @ + 1, !.ok = TRUE]
     ELSE WriteCodeDeduplicated(
            p, call, quick_code, oat_class.method_offsets_[p.method_offsets_index_ + 1],
            aligned_offset,
            IF aligned_code_delta # 0
            THEN DCheckOffset(
                   WriteFully(p.out, <<"code_alignment_padding", quick_code>>,
                              aligned_code_delta),
                   <<"code_alignment_padding", quick_code>>, aligned_offset)
            ELSE [ok |-> TRUE, out |-> p.out])

\* a test that also writes a map recorded below the cursor
WriteMapNowIfBelow(map_size, map_offset, offset) == map_size # 0 /\ map_offset <= offset

\* "if (map_size != 0u && map_offset == offset_)": the map was not written yet
WriteMapNow(map_size, map_offset, offset) == map_size # 0 /\ map_offset = offset

\* WriteMapMethodProcessor<MapBinder>::ProcessMethod
WriteMapProcessMethod(kind, p, call) ==
  LET oat_class == p.w.oat_classes_[p.oat_class_index_ + 1]
      compiled_method == oat_class.compiled_methods_[call.class_def_method_index + 1]
      map_offset == BinderGetOffset(kind, oat_class.method_offsets_[p.method_offsets_index_ + 1])
      map == BinderGetMap(kind, compiled_method)
      map_size == BlobSize(map)
      now == WriteMapNow(map_size, map_offset, p.offset_)
      wr == WriteFully(p.out, <<kind, map>>, map_size)
      visit == Visit("write", kind, p, call, map, map_offset, p.offset_, now)
  IN IF compiled_method.is_null THEN [p EXCEPT !.ok = TRUE]
     ELSE IF ~now
     THEN DCheckOffset([p EXCEPT !.method_offsets_index_ = @ + 1,
                                 !.visits = Append(@, visit), !.ok = TRUE],
                       <<kind, map>>, p.offset_)
     ELSE IF ~wr.ok
     THEN [p EXCEPT !.method_offsets_index_ = @ + 1, !.out = wr.out, !.ok = FALSE]
     ELSE DCheckOffset([p EXCEPT !.method_offsets_index_ = @ + 1, !.out = wr.out,
                                 !.offset_ = @ + map_size,
                                 !.visits = Append(@, visit), !.ok = TRUE],
                       <<kind, map>>, p.offset_ + map_size)

(***************************************************************************)
(* ProcessDexMethods(processor).  proc names the processor class; the      *)
(* callbacks are made in the order of TraversalCalls and the first one     *)
(* that returns false ends the traversal.                                  *)
(***************************************************************************)
Callback(proc, p, call) ==
  IF call.call = "StartClass"
  THEN IF proc[1] = "InitOatClasses" THEN InitOatClassesStartClass(p, call)
       ELSE OatDexMethodProcessorStartClass(p, call)
  ELSE IF call.call = "EndClass"
  THEN IF proc[1] = "InitOatClasses" THEN InitOatClassesEndClass(p)
       ELSE OatDexMethodProcessorEndClass(p)
  ELSE IF proc[1] = "InitOatClasses" THEN InitOatClassesProcessMethod(p, call)
  ELSE IF proc[1] = "InitCode" THEN InitCodeProcessMethod(p, call)
  ELSE IF proc[1] = "InitMap" THEN InitMapProcessMethod(proc[2], p, call)
  ELSE IF proc[1] = "InitImage" THEN InitImageProcessMethod(p, call)
  ELSE IF proc[1] = "WriteCode" THEN WriteCodeProcessMethod(p, call)
  ELSE WriteMapProcessMethod(proc[2], p, call)

RECURSIVE RunCalls(_, _, _, _)
\* p is what the callback before the i-th returned
RunCalls(proc, p, calls, i) ==
  IF ~p.ok THEN p
  ELSE IF i > Len(calls) THEN [p EXCEPT !.ok = TRUE]
  ELSE RunCalls(proc, Callback(proc, p, calls[i]), calls, i + 1)

ProcessDexMethods(proc, p, dfs) == RunCalls(proc, p, TraversalCalls(dfs), 1)

(***************************************************************************)
(* State.                                                                  *)
(***************************************************************************)
VARIABLES
  dex_files,        \* the input: *dex_files_
  image,            \* compiler_driver_->IsImage()
  instruction_set,  \* compiler_driver_->GetInstructionSet()
  sink_may_fail,    \* whether operations of the sink can fail
  generate_gdb_information,  \* compiler_options->GetGenerateGDBInformation()
  compilation,      \* the driver's CompileAll: its tasks and compiled_methods_
  pc,               \* the step the writer is at
  offset,           \* the constructor's running offset
  writer,           \* the OatWriter
  out,              \* the OutputStream
  file_offset,      \* Write's file_offset
  relative_offset,  \* Write's relative_offset
  result,           \* what Write returned: "none", "true", "false", "abort"
  init_visits,      \* what the layout passes decided, per compiled method
  write_visits,     \* what the write passes decided, per compiled method
  trav,             \* a traversal with a processor of any behaviour
  second,           \* a second OatWriter constructed on the same input
  manager,          \* a ParallelCompilationManager in ForAll, with its tasks
  driver,           \* the driver's tables that its threads fill
  stack             \* an AtomicStack and the threads that push to it

vars == <<dex_files, image, instruction_set, sink_may_fail, generate_gdb_information,
          compilation, pc, offset, writer, out, file_offset, relative_offset, result,
          init_visits, write_visits, trav, second, manager, driver, stack>>

\* what the threads of the compilation and of the collector work on
threads == <<manager, driver, stack>>

\* what the writer is constructed on: the dex files, the driver with what it
\* compiled, and the sink
inputs == <<dex_files, image, instruction_set, sink_may_fail, generate_gdb_information,
            compilation>>

NoSecondWriter == [constructed |-> FALSE, w |-> NewOatWriter]

\* no ForAll, empty tables and no stack: the writer runs on one thread
NoManager ==
  [begin |-> 0, end_ |-> 0, work_units |-> 0, started |-> FALSE, index_ |-> 0,
   tasks |-> <<>>, called |-> [i \in 1..(MaxForAllClassDefs + MaxWorkUnits + 1) |-> 0],
   returned |-> FALSE]

NoDriver ==
  [compiled_methods_ |-> <<>>, compiled_classes_ |-> <<>>, puts |-> {}, dchecks |-> {},
   last |-> [self |-> 0, ref |-> 0, status |-> "none", before |-> "none"],
   aborted |-> FALSE]

NoStack ==
  [capacity_ |-> 0, back_index_ |-> 0, begin_ |-> <<>>, threads |-> <<>>, returned |-> {}]

NoThreads == manager = NoManager /\ driver = NoDriver /\ stack = NoStack

NoTraversal == [calls |-> <<>>, fail_at |-> 0, log |-> <<>>, returned |-> "none"]

(***************************************************************************)
(* The layout stages of the constructor.                                   *)
(***************************************************************************)
\* OatWriter::InitOatHeader
InitOatHeaderOffset(image_file_location_size) ==
  SizeofOatHeader + image_file_location_size

RECURSIVE InitOatDexFilesFrom(_, _, _, _)
\* OatWriter::InitOatDexFiles: [offset, w]
InitOatDexFilesFrom(w, off, dfs, i) ==
  IF i > Len(dfs) THEN [offset |-> off, w |-> w]
  ELSE LET oat_dex_file == OatDexFileNew(off, dfs[i])
       IN InitOatDexFilesFrom([w EXCEPT !.oat_dex_files_ = Append(@, oat_dex_file)],
                              off + OatDexFileSizeOf(oat_dex_file), dfs, i + 1)

RECURSIVE InitDexFilesFromNoSize(_, _, _, _)
\* a loop that does not add the size of the dex file
InitDexFilesFromNoSize(w, off, dfs, i) ==
  IF i > Len(dfs) THEN [offset |-> off, w |-> w]
  ELSE InitDexFilesFromNoSize(
         [w EXCEPT !.size_dex_file_alignment_ = @ + (RoundUp(off, kDexAlignment) - off),
                   !.oat_dex_files_[i].dex_file_offset_ = RoundUp(off, kDexAlignment)],
         RoundUp(off, kDexAlignment), dfs, i + 1)

RECURSIVE InitDexFilesFrom(_, _, _, _)
\* OatWriter::InitDexFiles: [offset, w]
InitDexFilesFrom(w, off, dfs, i) ==
  IF i > Len(dfs) THEN [offset |-> off, w |-> w]
  ELSE LET aligned == RoundUp(off, kDexAlignment)
       IN InitDexFilesFrom(
            [w EXCEPT !.size_dex_file_alignment_ = @ + (aligned - off),
                      !.oat_dex_files_[i].dex_file_offset_ = aligned],
            aligned + dfs[i].file_size, dfs, i + 1)

\* OatDexFile::UpdateChecksum
OatDexFileUpdateChecksum(w, i) ==
  LET odf == w.oat_dex_files_[i]
  IN UpdateChecksum(
       UpdateChecksum(
         UpdateChecksum(
           UpdateChecksum(
             UpdateChecksum(w, <<"dex_file_location_size_", i>>, SizeofUint32),
             <<"dex_file_location_data_", i>>, odf.dex_file_location_size_),
           <<"dex_file_location_checksum_", i>>, SizeofUint32),
         <<"dex_file_offset_", i, odf.dex_file_offset_>>, SizeofUint32),
       <<"methods_offsets_", i, odf.methods_offsets_>>,
       SizeofUint32 * Len(odf.methods_offsets_))

\* a loop that takes the class descriptors of a module last to first
ClassOffsetsFromReversed(w, it, n) ==
  [k \in 1..n |-> w.oat_classes_[it + n + 1 - k].offset_]

\* "offset = (*oat_class_it)->offset_; ++oat_class_it;" for the n entries of
\* a module's methods_offsets_, with oat_class_it at position it
ClassOffsetsFrom(w, it, n) == [k \in 1..n |-> w.oat_classes_[it + k].offset_]

RECURSIVE ScatterClassOffsetsFoldFirst(_, _, _)
\* a loop that calls UpdateChecksum on a descriptor before it stores the
\* offsets of its classes
ScatterClassOffsetsFoldFirst(w, i, it) ==
  IF i > Len(w.oat_dex_files_) THEN [w |-> w, it |-> it, ok |-> TRUE]
  ELSE IF it + Len(w.oat_dex_files_[i].methods_offsets_) > Len(w.oat_classes_)
       THEN [w |-> w, it |-> it, ok |-> FALSE]
       ELSE ScatterClassOffsetsFoldFirst(
              [OatDexFileUpdateChecksum(w, i) EXCEPT
                 !.oat_dex_files_[i].methods_offsets_ =
                   ClassOffsetsFrom(w, it, Len(w.oat_dex_files_[i].methods_offsets_))],
              i + 1, it + Len(w.oat_dex_files_[i].methods_offsets_))

RECURSIVE ScatterClassOffsets(_, _, _)
\* the loop of InitOatClasses over oat_dex_files_; it is the position of
\* oat_class_it.  [w, it, ok]: ok is false when the iterator ran off the end
ScatterClassOffsets(w, i, it) ==
  IF i > Len(w.oat_dex_files_) THEN [w |-> w, it |-> it, ok |-> TRUE]
  ELSE LET n == Len(w.oat_dex_files_[i].methods_offsets_)
       IN IF it + n > Len(w.oat_classes_) THEN [w |-> w, it |-> it, ok |-> FALSE]
          ELSE ScatterClassOffsets(
                 OatDexFileUpdateChecksum(
                   [w EXCEPT !.oat_dex_files_[i].methods_offsets_ =
                               ClassOffsetsFrom(w, it, n)], i),
                 i + 1, it + n)

\* OatWriter::InitOatClasses: [offset, w, ok]
InitOatClassesStage(w, off, dfs, isa) ==
  LET p == ProcessDexMethods(<<"InitOatClasses", "">>,
                             NewProcessor(w, NewSink(0), off, 0, isa), dfs)
      sc == ScatterClassOffsets(p.w, 1, 0)
  IN [offset |-> p.offset_, w |-> sc.w,
      ok |-> p.ok /\ sc.ok /\ sc.it = Len(p.w.oat_classes_)]

RECURSIVE DoTrampolinesInit(_, _, _, _)
\* the DO_TRAMPOLINE sequence of InitOatCode: [offset, w]
DoTrampolinesInit(w, off, isa, k) ==
  IF k > Len(TrampolineNames) THEN [offset |-> off, w |-> w]
  ELSE LET aligned == AlignCode(off, isa)
       IN DoTrampolinesInit([w EXCEPT !.oat_header_.trampoline_offsets_[k] = aligned],
                            aligned + TrampolineSize(isa)[k], isa, k + 1)

\* an InitOatCode that starts the executable region where the tables end
InitOatCodeStageNoPage(w, off, img, isa) ==
  IF img
  THEN DoTrampolinesInit([w EXCEPT !.oat_header_.executable_offset_ = off], off, isa, 1)
  ELSE [offset |-> off, w |-> [w EXCEPT !.oat_header_.executable_offset_ = off]]

\* an InitOatCode that lays the trampolines out in every build
InitOatCodeStageAlways(w, off, img, isa) ==
  DoTrampolinesInit(
    [w EXCEPT !.oat_header_.executable_offset_ = RoundUp(off, kPageSize),
              !.size_executable_offset_alignment_ = RoundUp(off, kPageSize) - off],
    RoundUp(off, kPageSize), isa, 1)

\* OatWriter::InitOatCode: [offset, w]
InitOatCodeStage(w, off, img, isa) ==
  LET aligned == RoundUp(off, kPageSize)
      w1 == [w EXCEPT !.oat_header_.executable_offset_ = aligned,
                      !.size_executable_offset_alignment_ = aligned - off]
  IN IF img THEN DoTrampolinesInit(w1, aligned, isa, 1)
     ELSE [offset |-> aligned,
           w |-> [w1 EXCEPT !.oat_header_.trampoline_offsets_ =
                              [k \in 1..Len(TrampolineNames) |-> 0]]]

\* the PROCESS macro of InitOatCodeDexFiles: one layout pass
InitPass(proc, p, dfs) == ProcessDexMethods(proc, NextProcessor(p), dfs)

\* "if (compiler_driver_->IsImage()) { PROCESS(InitImageMethodProcessor); }"
InitImagePass(p, dfs) ==
  IF p.w.compiler_driver_.image_ THEN InitPass(<<"InitImage", "">>, p, dfs) ELSE p

\* an InitOatCodeDexFiles that lays the mapping tables out before the GC maps
InitOatCodeDexFilesStageMappingFirst(w, off, dfs, isa) ==
  InitImagePass(
    InitPass(<<"InitMap", "vmap_table">>,
      InitPass(<<"InitMap", "gc_map">>,
        InitPass(<<"InitMap", "mapping_table">>,
          InitPass(<<"InitCode", "">>, NewProcessor(w, NewSink(0), off, 0, isa), dfs),
          dfs),
        dfs),
      dfs),
    dfs)

\* an InitOatCodeDexFiles that runs the image pass before the passes of the
\* GC maps, mapping tables and vmap tables
InitOatCodeDexFilesStageImageFirst(w, off, dfs, isa) ==
  InitPass(<<"InitMap", "vmap_table">>,
    InitPass(<<"InitMap", "mapping_table">>,
      InitPass(<<"InitMap", "gc_map">>,
        InitImagePass(
          InitPass(<<"InitCode", "">>, NewProcessor(w, NewSink(0), off, 0, isa), dfs),
          dfs),
        dfs),
      dfs),
    dfs)

\* OatWriter::InitOatCodeDexFiles: the processor after the last pass, with
\* the visits of all the passes
InitOatCodeDexFilesStage(w, off, dfs, isa) ==
  InitImagePass(
    InitPass(<<"InitMap", "vmap_table">>,
      InitPass(<<"InitMap", "mapping_table">>,
        InitPass(<<"InitMap", "gc_map">>,
          InitPass(<<"InitCode", "">>, NewProcessor(w, NewSink(0), off, 0, isa), dfs),
          dfs),
        dfs),
      dfs),
    dfs)

(***************************************************************************)
(* The write phase.  A thread of sink operations is a record [ok, out, w]: *)
(* once ok is false the function has returned and nothing more is done.    *)
(***************************************************************************)
\* a write that folds what it writes into the checksum of the header
WriteThenFolding(t, what, byte_count, size_field) ==
  IF ~t.ok THEN t
  ELSE IF WriteFully(t.out, what, byte_count).ok
       THEN [ok |-> TRUE, out |-> WriteFully(t.out, what, byte_count).out,
             w |-> UpdateChecksum([t.w EXCEPT ![size_field] = @ + byte_count],
                                  what, byte_count)]
       ELSE [ok |-> FALSE, out |-> WriteFully(t.out, what, byte_count).out, w |-> t.w]

\* "if (!out->WriteFully(...)) return false; size += ..."
WriteThen(t, what, byte_count, size_field) ==
  IF ~t.ok THEN t
  ELSE LET r == WriteFully(t.out, what, byte_count)
       IN IF r.ok
          THEN [ok |-> TRUE, out |-> r.out,
                w |-> [t.w EXCEPT ![size_field] = @ + byte_count]]
          ELSE [ok |-> FALSE, out |-> r.out, w |-> t.w]

\* the head of OatWriter::Write: the header and the image file location
WriteOatHeaderOps(t, image_file_location_size) ==
  WriteThen(
    WriteThen(t, <<"oat_header_">>, SizeofOatHeader,
              "size_oat_header_"),
    <<"image_file_location_">>, image_file_location_size,
    "size_oat_header_image_file_location_")

\* OatWriter::OatDexFile::Write of the i-th descriptor odf
OatDexFileWriteFields(t, i, odf) ==
  WriteThen(
    WriteThen(
      WriteThen(
        WriteThen(
          WriteThen(t, <<"dex_file_location_size_", i>>, SizeofUint32,
            "size_oat_dex_file_location_size_"),
          <<"dex_file_location_data_", i>>, odf.dex_file_location_size_,
          "size_oat_dex_file_location_data_"),
        <<"dex_file_location_checksum_", i>>, SizeofUint32,
        "size_oat_dex_file_location_checksum_"),
      <<"dex_file_offset_", i, odf.dex_file_offset_>>, SizeofUint32,
      "size_oat_dex_file_offset_"),
    <<"methods_offsets_", i, odf.methods_offsets_>>,
    SizeofUint32 * Len(odf.methods_offsets_),
    "size_oat_dex_file_methods_offsets_")

OatDexFileWrite(t, i) ==
  OatDexFileWriteFields(
    DCheckOffset(t, <<"OatDexFile", i>>, t.w.oat_dex_files_[i].offset_),
    i, t.w.oat_dex_files_[i])

\* a block that adds the size field of the bitmap to the statistic of the type
OatClassWriteBitmapCountBitmap(t, i, oc) ==
  IF oc.method_bitmap_size_ = 0 THEN t
  ELSE WriteThen(
         WriteThen(t, <<"method_bitmap_size_", i>>, SizeofUint32, "size_oat_class_type_"),
         <<"method_bitmap_", i, oc.method_bitmap_>>, oc.method_bitmap_size_,
         "size_oat_class_method_bitmaps_")

\* the "if (method_bitmap_size_ != 0)" block of OatClass::Write
OatClassWriteBitmap(t, i, oc) ==
  IF oc.method_bitmap_size_ = 0 THEN t
  ELSE WriteThen(
         WriteThen(t, <<"method_bitmap_size_", i>>, SizeofUint32,
           "size_oat_class_method_bitmaps_"),
         <<"method_bitmap_", i, oc.method_bitmap_>>, oc.method_bitmap_size_,
         "size_oat_class_method_bitmaps_")

\* OatWriter::OatClass::Write of the i-th descriptor oc
OatClassWriteFields(t, i, oc) ==
  WriteThen(
    OatClassWriteBitmap(
      WriteThen(
        WriteThen(t, <<"status_", i>>, SizeofUint16,
          "size_oat_class_status_"),
        <<"type_", i, oc.type_>>, SizeofUint16,
        "size_oat_class_type_"),
      i, oc),
    <<"method_offsets_", i, oc.method_offsets_>>,
    SizeofOatMethodOffsets * Len(oc.method_offsets_),
    "size_oat_class_method_offsets_")

OatClassWrite(t, i) ==
  OatClassWriteFields(
    DCheckOffset(t, <<"OatClass", i>>, t.w.oat_classes_[i].offset_),
    i, t.w.oat_classes_[i])

RECURSIVE WriteOatDexFiles(_, _)
WriteOatDexFiles(t, i) ==
  IF ~t.ok \/ i > Len(t.w.oat_dex_files_) THEN t
  ELSE WriteOatDexFiles(OatDexFileWrite(t, i), i + 1)

\* the write of a dex file's bytes, after the seek to its section returned sk
WriteDexFileAfterSeek(t, dfs, i, expected_offset, sk) ==
  IF sk.ret # expected_offset THEN [ok |-> FALSE, out |-> sk.out, w |-> t.w]
  ELSE WriteThen([t EXCEPT !.out = sk.out], <<"dex_file", i>>, dfs[i].file_size,
                 "size_dex_file_")

\* a seek to the dex file's offset in the oat data, without file_offset
WriteDexFileNoFileOffset(t, dfs, fo, i) ==
  WriteDexFileAfterSeek(t, dfs, i, t.w.oat_dex_files_[i].dex_file_offset_,
                        Seek(t.out, <<"seek_dex_file", i>>,
                             t.w.oat_dex_files_[i].dex_file_offset_))

\* the seek to a dex file's section and the write of its bytes
WriteDexFile(t, dfs, fo, i) ==
  WriteDexFileAfterSeek(t, dfs, i, fo + t.w.oat_dex_files_[i].dex_file_offset_,
                        Seek(t.out, <<"seek_dex_file", i>>,
                             fo + t.w.oat_dex_files_[i].dex_file_offset_))

RECURSIVE WriteDexFiles(_, _, _, _)
WriteDexFiles(t, dfs, fo, i) ==
  IF ~t.ok \/ i > Len(t.w.oat_dex_files_) THEN t
  ELSE WriteDexFiles(WriteDexFile(t, dfs, fo, i), dfs, fo, i + 1)

RECURSIVE WriteOatClasses(_, _)
WriteOatClasses(t, i) ==
  IF ~t.ok \/ i > Len(t.w.oat_classes_) THEN t
  ELSE WriteOatClasses(OatClassWrite(t, i), i + 1)

\* OatWriter::WriteTables
WriteTablesOps(t, dfs, fo) ==
  WriteOatClasses(WriteDexFiles(WriteOatDexFiles(t, 1), dfs, fo, 1), 1)

RECURSIVE DoTrampolinesWrite(_, _, _, _)

\* DO_TRAMPOLINE(field) of WriteCode after its Seek, whose result is not
\* looked at, left the sink o
DoTrampolineWrite(t, rel, isa, k, alignment_padding, size, wr) ==
  IF ~wr.ok
  THEN [ok |-> FALSE, out |-> wr.out,
        w |-> [t.w EXCEPT !.size_trampoline_alignment_ = @ + alignment_padding],
        relative_offset |-> rel]
  ELSE DoTrampolinesWrite(
         DCheckOffset(
           [ok |-> TRUE, out |-> wr.out,
            w |-> [t.w EXCEPT !.size_trampoline_alignment_ = @ + alignment_padding,
                              !.size_trampolines_[k] = @ + size],
            relative_offset |-> rel],
           <<TrampolineNames[k]>>, rel + alignment_padding + size),
         rel + alignment_padding + size, isa, k + 1)

\* the DO_TRAMPOLINE sequence of WriteCode: [ok, out, w, relative_offset]
DoTrampolinesWrite(t, rel, isa, k) ==
  IF ~t.ok \/ k > Len(TrampolineNames) THEN [t EXCEPT !.relative_offset = rel]
  ELSE DoTrampolineWrite(
         t, rel, isa, k, AlignCode(rel, isa) - rel, TrampolineSize(isa)[k],
         WriteFully(Seek(t.out, <<"seek_trampoline_alignment", k>>,
                         t.out.pos + (AlignCode(rel, isa) - rel)).out,
                    <<TrampolineNames[k]>>, TrampolineSize(isa)[k]))

\* WriteCode after its seek to the executable offset returned sk
WriteCodeAfterSeek(t, fo, img, isa, rel, sk) ==
  IF sk.ret # fo + rel
  THEN [ok |-> FALSE, out |-> sk.out, w |-> t.w, relative_offset |-> 0]
  ELSE IF img
  THEN DoTrampolinesWrite(
         DCheckOffset([ok |-> TRUE, out |-> sk.out, w |-> t.w, relative_offset |-> rel],
                      <<"seek_executable_offset">>, rel),
         rel, isa, 1)
  ELSE DCheckOffset([ok |-> TRUE, out |-> sk.out, w |-> t.w, relative_offset |-> rel],
                    <<"seek_executable_offset">>, rel)

\* "return false" and "return 0" are the same in a function that returns
\* size_t, and the caller takes a returned 0 for failure
ReturnedOffset(t) ==
  IF ~t.ok THEN [t EXCEPT !.relative_offset = 0]
  ELSE [t EXCEPT !.ok = (t.relative_offset # 0)]

\* OatWriter::WriteCode: [ok, out, w, relative_offset]
WriteCodeOps(t, fo, img, isa) ==
  ReturnedOffset(
    WriteCodeAfterSeek(t, fo, img, isa, t.w.oat_header_.executable_offset_,
                       Seek(t.out, <<"seek_executable_offset">>,
                            t.out.pos + t.w.size_executable_offset_alignment_)))

\* size_gc_map_ = relative_offset - gc_maps_offset, and the like
SetMapSize(kind, start, q) ==
  IF ~q.ok THEN q
  ELSE IF kind = "gc_map" THEN [q EXCEPT !.w.size_gc_map_ = q.offset_ - start]
  ELSE IF kind = "mapping_table"
  THEN [q EXCEPT !.w.size_mapping_table_ = q.offset_ - start]
  ELSE [q EXCEPT !.w.size_vmap_table_ = q.offset_ - start]

\* the PROCESS macro of WriteCodeDexFiles: one write pass; once a pass has
\* failed the function has returned 0
WriteCodePass(p, dfs) ==
  ProcessDexMethods(<<"WriteCode", "">>, NextProcessor(p), dfs)

WriteMapPass(kind, p, dfs) ==
  IF ~p.ok THEN p
  ELSE SetMapSize(kind, p.offset_,
                  ProcessDexMethods(<<"WriteMap", kind>>, NextProcessor(p), dfs))

\* OatWriter::WriteCodeDexFiles: the processor after the last pass run
WriteCodeDexFilesOps(w, o, dfs, fo, rel, isa) ==
  WriteMapPass("vmap_table",
    WriteMapPass("mapping_table",
      WriteMapPass("gc_map",
        WriteCodePass(NewProcessor(w, o, rel, fo, isa), dfs),
        dfs),
      dfs),
    dfs)

\* the operation of a step that may be made to fail: any of the n the step
\* makes when none fails, or none
FailChoices(n) == IF sink_may_fail THEN 0..n ELSE {0}

Armed(o, k) == [o EXCEPT !.nops = 0, !.fail_at = k]

Disarmed(o) == [o EXCEPT !.nops = 0, !.fail_at = 0]

(***************************************************************************)
(* The constructor OatWriter::OatWriter, stage by stage.                   *)
(***************************************************************************)
InitOatHeader ==
  /\ pc = "InitOatHeader"
  /\ offset' = InitOatHeaderOffset(ImageFileLocationSize(image))
  /\ pc' = "InitOatDexFiles"
  /\ UNCHANGED <<threads, inputs, writer, out, file_offset, relative_offset, result,
                 init_visits, write_visits, trav, second>>

InitOatDexFiles ==
  /\ pc = "InitOatDexFiles"
  /\ \E r \in {InitOatDexFilesFrom(writer, offset, dex_files, 1)} :
        /\ offset' = r.offset
        /\ writer' = r.w
  /\ pc' = "InitDexFiles"
  /\ UNCHANGED <<threads, inputs, out, file_offset, relative_offset, result,
                 init_visits, write_visits, trav, second>>

InitDexFiles ==
  /\ pc = "InitDexFiles"
  /\ \E r \in {InitDexFilesFrom(writer, offset, dex_files, 1)} :
        /\ offset' = r.offset
        /\ writer' = r.w
  /\ pc' = "InitOatClasses"
  /\ UNCHANGED <<threads, inputs, out, file_offset, relative_offset, result,
                 init_visits, write_visits, trav, second>>

InitOatClasses ==
  /\ pc = "InitOatClasses"
  /\ \E r \in {InitOatClassesStage(writer, offset, dex_files, instruction_set)} :
        /\ offset' = r.offset
        /\ writer' = r.w
        /\ pc' = IF r.ok THEN "InitOatCode" ELSE "abort"
  /\ UNCHANGED <<threads, inputs, out, file_offset, relative_offset, result,
                 init_visits, write_visits, trav, second>>

InitOatCode ==
  /\ pc = "InitOatCode"
  /\ \E r \in {InitOatCodeStage(writer, offset, image, instruction_set)} :
        /\ offset' = r.offset
        /\ writer' = r.w
  /\ pc' = "InitOatCodeDexFiles"
  /\ UNCHANGED <<threads, inputs, out, file_offset, relative_offset, result,
                 init_visits, write_visits, trav, second>>

\* the last stage, and the constructor's end: size_ = offset and the CHECK
\* that there is one OatDexFile per dex file
InitOatCodeDexFiles ==
  /\ pc = "InitOatCodeDexFiles"
  /\ \E p \in {InitOatCodeDexFilesStage(writer, offset, dex_files, instruction_set)} :
        /\ offset' = p.offset_
        /\ writer' = [p.w EXCEPT !.size_ = p.offset_]
        /\ init_visits' = p.visits
        /\ pc' = IF Len(dex_files) = Len(p.w.oat_dex_files_) THEN "Write" ELSE "abort"
  /\ UNCHANGED <<threads, inputs, out, file_offset, relative_offset, result, write_visits, trav, second>>

(***************************************************************************)
(* The constructor run as a whole, for a second writer on the same dex     *)
(* files and the same driver.                                              *)
(***************************************************************************)
\* "offset = InitDexFiles(offset)" and the stages after it, each on the
\* offset and the writer r that the stage before it left
StageDexFiles(r, dfs) == InitDexFilesFrom(r.w, r.offset, dfs, 1)

StageOatClasses(r, dfs, isa) == InitOatClassesStage(r.w, r.offset, dfs, isa)

StageOatCode(r, img, isa) == InitOatCodeStage(r.w, r.offset, img, isa)

StageOatCodeDexFiles(r, dfs, isa) == InitOatCodeDexFilesStage(r.w, r.offset, dfs, isa)

\* "size_ = offset"
StageSize(p) == [p.w EXCEPT !.size_ = p.offset_]

\* OatWriter::OatWriter on a writer w whose members are initialized
Construct(w, dfs, img, isa) ==
  StageSize(
    StageOatCodeDexFiles(
      StageOatCode(
        StageOatClasses(
          StageDexFiles(
            InitOatDexFilesFrom(w, InitOatHeaderOffset(ImageFileLocationSize(img)),
                                dfs, 1),
            dfs),
          dfs, isa),
        img, isa),
      dfs, isa))

\* a second writer that finds the dedup tables of the first
SecondWriterSharingTables(first) ==
  [NewOatWriter EXCEPT !.compiler_driver_ = first.compiler_driver_,
                       !.art_methods_ = first.art_methods_,
                       !.code_offsets_ = first.code_offsets_,
                       !.gc_map_offsets_ = first.gc_map_offsets_,
                       !.mapping_table_offsets_ = first.mapping_table_offsets_,
                       !.vmap_table_offsets_ = first.vmap_table_offsets_]

\* the members of a second writer as its initializers leave them: every
\* table and counter is a member, none is shared with the first writer; the
\* driver and the ArtMethods of the class linker are those of the first
SecondWriter(first) ==
  [NewOatWriter EXCEPT !.compiler_driver_ = first.compiler_driver_,
                       !.art_methods_ = first.art_methods_]

\* a second OatWriter is constructed for the dex files and the driver of
\* the first
ConstructAgain ==
  /\ pc = "Write"
  /\ second' = [constructed |-> TRUE,
                w |-> Construct(SecondWriter(writer), dex_files, image, instruction_set)]
  /\ pc' = "ConstructedAgain"
  /\ UNCHANGED <<threads, inputs, offset, writer, out, file_offset, relative_offset, result,
                 init_visits, write_visits, trav>>

(***************************************************************************)
(* OatWriter::Write(out).                                                  *)
(***************************************************************************)
Returned(res) ==
  /\ result' = res
  /\ pc' = "done"

\* Write is called with a sink at some position; it notes the position and
\* writes the header and the image file location
WriteOatHeader ==
  /\ pc = "Write"
  /\ \E fo \in FileOffsets :
       LET o == NewSink(fo)
           size == ImageFileLocationSize(image)
           dry == WriteOatHeaderOps([ok |-> TRUE, out |-> o, w |-> writer], size)
       IN \E k \in FailChoices(dry.out.nops) :
            \E t \in {WriteOatHeaderOps([ok |-> TRUE, out |-> Armed(o, k), w |-> writer],
                                       size)} :
               /\ file_offset' = fo
               /\ out' = Disarmed(t.out)
               /\ writer' = t.w
               /\ IF t.ok THEN pc' = "WriteTables" /\ result' = result
                  ELSE Returned("false")
  /\ UNCHANGED <<threads, inputs, offset, relative_offset, init_visits, write_visits, trav, second>>

WriteTables ==
  /\ pc = "WriteTables"
  /\ LET dry == WriteTablesOps([ok |-> TRUE, out |-> out, w |-> writer],
                               dex_files, file_offset)
     IN \E k \in FailChoices(dry.out.nops) :
          \E t \in {WriteTablesOps([ok |-> TRUE, out |-> Armed(out, k), w |-> writer],
                                  dex_files, file_offset)} :
             /\ out' = Disarmed(t.out)
             /\ writer' = t.w
             /\ IF t.ok THEN pc' = "WriteCode" /\ result' = result
                ELSE Returned("false")
  /\ UNCHANGED <<threads, inputs, offset, file_offset, relative_offset, init_visits,
                 write_visits, trav, second>>

WriteCode ==
  /\ pc = "WriteCode"
  /\ LET dry == WriteCodeOps([ok |-> TRUE, out |-> out, w |-> writer],
                             file_offset, image, instruction_set)
     IN \E k \in FailChoices(dry.out.nops) :
          \E t \in {WriteCodeOps([ok |-> TRUE, out |-> Armed(out, k), w |-> writer],
                                file_offset, image, instruction_set)} :
             /\ out' = Disarmed(t.out)
             /\ writer' = t.w
             /\ relative_offset' = t.relative_offset
             /\ IF t.ok THEN pc' = "WriteCodeDexFiles" /\ result' = result
                ELSE Returned("false")
  /\ UNCHANGED <<threads, inputs, offset, file_offset, init_visits, write_visits, trav, second>>

WriteCodeDexFiles ==
  /\ pc = "WriteCodeDexFiles"
  /\ LET dry == WriteCodeDexFilesOps(writer, out, dex_files, file_offset,
                                     relative_offset, instruction_set)
     IN \E k \in FailChoices(dry.out.nops) :
          \E p \in {WriteCodeDexFilesOps(writer, Armed(out, k), dex_files, file_offset,
                                        relative_offset, instruction_set)} :
             /\ out' = Disarmed(p.out)
             /\ writer' = p.w
             /\ write_visits' = p.visits
             /\ relative_offset' = IF p.ok THEN p.offset_ ELSE 0
             /\ IF p.ok /\ p.offset_ # 0 THEN pc' = "WriteFinish" /\ result' = result
                ELSE Returned("false")
  /\ UNCHANGED <<threads, inputs, offset, file_offset, init_visits, trav, second>>

\* the two CHECK_EQ at the end of Write, and its return
WriteFinish ==
  /\ pc = "WriteFinish"
  /\ IF file_offset + writer.size_ = out.pos /\ writer.size_ = relative_offset
     THEN Returned("true")
     ELSE Returned("abort")
  /\ UNCHANGED <<threads, inputs, offset, writer, out, file_offset, relative_offset,
                 init_visits, write_visits, trav, second>>

(***************************************************************************)
(* ProcessDexMethods with a processor of any behaviour: its callbacks      *)
(* return true, except the fail_at-th one made (0: none), which returns    *)
(* false.                                                                  *)
(***************************************************************************)
\* a traversal that does not look at what its callbacks return
ReturnAfterCallbackIgnored(ok) == "none"

\* "if (UNLIKELY(!processor->StartClass(...))) { return false; }", and the
\* same for ProcessMethod and EndClass
ReturnAfterCallback(ok) == IF ok THEN "none" ELSE "false"

ProcessDexMethodsCallback ==
  /\ trav.returned = "none"
  /\ Len(trav.log) < Len(trav.calls)
  /\ LET call == trav.calls[Len(trav.log) + 1]
         log == Append(trav.log, call)
     IN trav' = [trav EXCEPT !.log = log,
                             !.returned = ReturnAfterCallback(Len(log) # trav.fail_at)]
  /\ UNCHANGED <<threads, inputs, pc, offset, writer, out, file_offset, relative_offset, result,
                 init_visits, write_visits, second>>

ProcessDexMethodsReturn ==
  /\ trav.returned = "none"
  /\ Len(trav.log) = Len(trav.calls)
  /\ trav' = [trav EXCEPT !.returned = "true"]
  /\ UNCHANGED <<threads, inputs, pc, offset, writer, out, file_offset, relative_offset, result,
                 init_visits, write_visits, second>>

(***************************************************************************)
(* Dex2Oat::CreateOatFile up to the construction of the writer:            *)
(* CompilerDriver::CompileAll, as far as it fills compiled_methods_.       *)
(***************************************************************************)
\* the driver before CompileAll: Compile has compiled no dex file, no ForAll
\* is running, the thread pool has no task and compiled_methods_ is empty
NewCompilation ==
  [dex_file_index |-> 0, in_for_all |-> FALSE, index_ |-> 0, tasks |-> <<>>,
   compiled_methods_ |-> {}]

\* CompilerDriver::CompileClass: the references its calls of CompileMethod
\* put into compiled_methods_, one for every encoded method the backend
\* returns a compiled method for
CompileClass(dfs, d, class_def_index) ==
  LET class_def == dfs[d].class_defs[class_def_index + 1]
      methods == class_def.direct_methods \o class_def.virtual_methods
  IN IF ~class_def.has_class_data THEN {}
     ELSE {<<d, class_def_index, m>> :
             m \in {m \in 1..Len(methods) : ~GetCompiledMethod(methods[m]).is_null}}

\* the driver after CompileAll
CompileAllDone(dfs) ==
  [NewCompilation EXCEPT
     !.dex_file_index = Len(dfs),
     !.compiled_methods_ =
        UNION {UNION {CompileClass(dfs, d, class_def_index - 1) :
                        class_def_index \in 1..Len(dfs[d].class_defs)} :
                 d \in 1..Len(dfs)}]

\* a ForAll that returns without waiting for its tasks
ForAllReturnsAtOnce(tasks) == TRUE

\* "Wait for all the worker threads to finish": thread_pool_->Wait returns
\* when every task added has run to its end
ForAllReturns(tasks) == \A t \in DOMAIN tasks : tasks[t].at = "finished"

\* CompilerDriver::CompileDexFile calls ForAll for the class definitions of
\* the next dex file; ForAll sets index_ and adds the tasks: a ForAllClosure
\* each, with its end_ and the dex file of its manager_, at the top of the
\* loop of Run
ForAll ==
  /\ pc = "CompileAll"
  /\ ~compilation.in_for_all
  /\ compilation.dex_file_index < Len(dex_files)
  /\ compilation' =
       [compilation EXCEPT
          !.in_for_all = TRUE,
          !.index_ = 0,
          !.tasks = [t \in 1..ThreadCount |->
                       [at |-> "NextIndex", index |-> 0,
                        dex_file_ |-> compilation.dex_file_index + 1,
                        end_ |-> Len(dex_files[compilation.dex_file_index + 1].class_defs)]]]
  /\ UNCHANGED <<threads, dex_files, image, instruction_set, sink_may_fail,
                 generate_gdb_information, pc, offset, writer, out, file_offset,
                 relative_offset, result, init_visits, write_visits, trav, second>>

\* ForAllClosure::Run, from the top of its loop to the callback or the break:
\* NextIndex is index_.FetchAndAdd(1)
TaskNextIndex ==
  /\ \E t \in DOMAIN compilation.tasks :
       /\ compilation.tasks[t].at = "NextIndex"
       /\ compilation' =
            [compilation EXCEPT
               !.index_ = @ + 1,
               !.tasks[t] = IF compilation.index_ >= compilation.tasks[t].end_
                            THEN [@ EXCEPT !.at = "finished"]
                            ELSE [@ EXCEPT !.at = "callback",
                                           !.index = compilation.index_]]
  /\ UNCHANGED <<threads, dex_files, image, instruction_set, sink_may_fail,
                 generate_gdb_information, pc, offset, writer, out, file_offset,
                 relative_offset, result, init_visits, write_visits, trav, second>>

\* ForAllClosure::Run: callback_(manager_, index), which is CompileClass for
\* the manager's dex file, and back to the top of the loop
TaskCallback ==
  /\ \E t \in DOMAIN compilation.tasks :
       /\ compilation.tasks[t].at = "callback"
       /\ compilation' =
            [compilation EXCEPT
               !.compiled_methods_ =
                  @ \cup CompileClass(dex_files, compilation.tasks[t].dex_file_,
                                      compilation.tasks[t].index),
               !.tasks[t] = [@ EXCEPT !.at = "NextIndex", !.index = 0]]
  /\ UNCHANGED <<threads, dex_files, image, instruction_set, sink_may_fail,
                 generate_gdb_information, pc, offset, writer, out, file_offset,
                 relative_offset, result, init_visits, write_visits, trav, second>>

\* ForAll returns to CompileDexFile and that to the loop of Compile; the
\* tasks that ran are done with
ForAllReturn ==
  /\ pc = "CompileAll"
  /\ compilation.in_for_all
  /\ ForAllReturns(compilation.tasks)
  /\ compilation' = [compilation EXCEPT !.in_for_all = FALSE, !.dex_file_index = @ + 1,
                                        !.tasks = SelectSeq(@, LAMBDA task : task.at # "finished")]
  /\ UNCHANGED <<threads, dex_files, image, instruction_set, sink_may_fail,
                 generate_gdb_information, pc, offset, writer, out, file_offset,
                 relative_offset, result, init_visits, write_visits, trav, second>>

\* CompileAll returns and CreateOatFile constructs the writer
CompileAllReturn ==
  /\ pc = "CompileAll"
  /\ ~compilation.in_for_all
  /\ compilation.dex_file_index = Len(dex_files)
  /\ pc' = "InitOatHeader"
  /\ UNCHANGED <<threads, inputs, offset, writer, out, file_offset, relative_offset, result,
                 init_visits, write_visits, trav, second>>

(***************************************************************************)
(* The threads of the compilation: ParallelCompilationManager::ForAll with *)
(* CompilerDriver::CompileClass as its callback on the class definitions   *)
(* of dex_files[1], and the tables of the driver that the tasks fill.      *)
(***************************************************************************)
\* a ForAllClosure: where Run is at, the index NextIndex gave it, and the
\* locals of the CompileClass it called: the position of its iterator in the
\* direct methods followed by the virtual ones, the previous method_idx of
\* the loop it is in, and the method_idx of the CompileMethod it called
NewForAllClosure ==
  [at |-> "NextIndex", index |-> 0, pos |-> 0, previous |-> -1, method_idx |-> 0]

RECURSIVE CompileClassFrom(_, _, _, _)
\* CompilerDriver::CompileClass from the top of its loops, with the iterator
\* at pos, as far as the next CompileMethod that has a compiled method to
\* put, or its return to Run. A method_idx equal to the previous one of the
\* same loop is passed over; the loop of the virtual methods starts with a
\* previous index of -1. The backend gives GetCompiledMethod(method_idx).
CompileClassFrom(task, class_def, pos, previous) ==
  IF pos > Len(class_def.direct_methods) + Len(class_def.virtual_methods)
  THEN [NewForAllClosure EXCEPT !.at = "NextIndex"]
  ELSE IF (class_def.direct_methods \o class_def.virtual_methods)[pos] = previous
  THEN CompileClassFrom(task, class_def, pos + 1,
                        IF pos = Len(class_def.direct_methods) THEN -1 ELSE previous)
  ELSE IF GetCompiledMethod((class_def.direct_methods \o class_def.virtual_methods)[pos]).is_null
  THEN CompileClassFrom(task, class_def, pos + 1,
                        IF pos = Len(class_def.direct_methods) THEN -1
                        ELSE (class_def.direct_methods \o class_def.virtual_methods)[pos])
  ELSE [task EXCEPT
          !.at = "CompileMethod",
          !.pos = pos,
          !.method_idx = (class_def.direct_methods \o class_def.virtual_methods)[pos],
          !.previous = IF pos = Len(class_def.direct_methods) THEN -1
                       ELSE (class_def.direct_methods \o class_def.virtual_methods)[pos]]

\* dex_file.GetClassDef(class_def_index) of the manager's dex file
ManagerClassDef(class_def_index) ==
  IF class_def_index < Len(dex_files[1].class_defs)
  THEN dex_files[1].class_defs[class_def_index + 1]
  ELSE NoDataClassDef

\* ForAll up to StartWorkers: index_ = begin and work_units tasks
ManagerForAll ==
  /\ pc = "ForAll"
  /\ ~manager.started
  /\ manager' = [manager EXCEPT
                   !.started = TRUE,
                   !.index_ = manager.begin,
                   !.tasks = [t \in 1..manager.work_units |-> NewForAllClosure]]
  /\ UNCHANGED <<inputs, pc, offset, writer, out, file_offset, relative_offset, result,
                 init_visits, write_visits, trav, second, driver, stack>>

\* a FetchAndAdd that reads index_ and leaves it
NextIndexWithoutAdd(t) ==
  /\ pc = "ForAll"
  /\ t \in DOMAIN manager.tasks
  /\ manager.tasks[t].at = "NextIndex"
  /\ manager.called[manager.index_ + 1] < 2
  /\ manager' =
       IF manager.index_ >= manager.end_
       THEN [manager EXCEPT !.tasks[t].at = "finished"]
       ELSE [manager EXCEPT
               !.called[manager.index_ + 1] = @ + 1,
               !.tasks[t] =
                  IF ~ManagerClassDef(manager.index_).has_class_data
                  THEN NewForAllClosure
                  ELSE CompileClassFrom([NewForAllClosure EXCEPT !.index = manager.index_],
                                        ManagerClassDef(manager.index_), 1, -1)]
  /\ UNCHANGED <<inputs, pc, offset, writer, out, file_offset, relative_offset, result,
                 init_visits, write_visits, trav, second, driver, stack>>

\* ForAllClosure::Run from the top of its loop: index = index_.FetchAndAdd(1),
\* the break when index >= end_, and else callback_(manager_, index), which
\* is CompileClass, up to its first shared access or its return
ForAllClosureRun(t) ==
  /\ pc = "ForAll"
  /\ t \in DOMAIN manager.tasks
  /\ manager.tasks[t].at = "NextIndex"
  /\ manager' =
       IF manager.index_ >= manager.end_
       THEN [manager EXCEPT !.index_ = @ + 1, !.tasks[t].at = "finished"]
       ELSE [manager EXCEPT
               !.index_ = @ + 1,
               !.called[manager.index_ + 1] = @ + 1,
               !.tasks[t] =
                  IF ~ManagerClassDef(manager.index_).has_class_data
                  THEN NewForAllClosure
                  ELSE CompileClassFrom([NewForAllClosure EXCEPT !.index = manager.index_],
                                        ManagerClassDef(manager.index_), 1, -1)]
  /\ UNCHANGED <<inputs, pc, offset, writer, out, file_offset, relative_offset, result,
                 init_visits, write_visits, trav, second, driver, stack>>

\* CompileMethod with a compiled method: "DCHECK(GetCompiledMethod(ref) ==
\* NULL)", a lookup under compiled_methods_lock_; what fails is noted and
\* the method goes on, as it does in a build without DCHECKs
CompileMethodDCheck(t) ==
  /\ pc = "ForAll"
  /\ t \in DOMAIN manager.tasks
  /\ manager.tasks[t].at = "CompileMethod"
  /\ manager' = [manager EXCEPT !.tasks[t].at = "Put"]
  /\ driver' =
       IF SafeMapHas(driver.compiled_methods_, <<1, manager.tasks[t].method_idx>>)
       THEN [driver EXCEPT
               !.dchecks = @ \cup {[ref |-> <<1, manager.tasks[t].method_idx>>,
                                    index |-> manager.tasks[t].index,
                                    pos |-> manager.tasks[t].pos]}]
       ELSE driver
  /\ UNCHANGED <<inputs, pc, offset, writer, out, file_offset, relative_offset, result,
                 init_visits, write_visits, trav, second, stack>>

\* CompileMethod: compiled_methods_.Put(ref, compiled_method) under the
\* lock, which leaves an entry that is there already; then the DCHECK that
\* there is an entry, and CompileClass goes on to its next CompileMethod
CompileMethodPut(t) ==
  /\ pc = "ForAll"
  /\ t \in DOMAIN manager.tasks
  /\ manager.tasks[t].at = "Put"
  /\ driver' =
       [driver EXCEPT
          !.puts = @ \cup {[ref |-> <<1, manager.tasks[t].method_idx>>,
                            index |-> manager.tasks[t].index,
                            pos |-> manager.tasks[t].pos,
                            had_entry |-> SafeMapHas(driver.compiled_methods_,
                                                     <<1, manager.tasks[t].method_idx>>)]},
          !.compiled_methods_ =
             IF SafeMapHas(@, <<1, manager.tasks[t].method_idx>>) THEN @
             ELSE SafeMapPut(@, <<1, manager.tasks[t].method_idx>>,
                             GetCompiledMethod(manager.tasks[t].method_idx))]
  /\ manager' = [manager EXCEPT
                   !.tasks[t] = CompileClassFrom(@, ManagerClassDef(@.index), @.pos + 1,
                                                 @.previous)]
  /\ UNCHANGED <<inputs, pc, offset, writer, out, file_offset, relative_offset, result,
                 init_visits, write_visits, trav, second, stack>>

\* "Wait for all the worker threads to finish", and ForAll returns
ManagerForAllWait ==
  /\ pc = "ForAll"
  /\ manager.started
  /\ ~manager.returned
  /\ \A t \in DOMAIN manager.tasks : manager.tasks[t].at = "finished"
  /\ manager' = [manager EXCEPT !.returned = TRUE]
  /\ UNCHANGED <<inputs, pc, offset, writer, out, file_offset, relative_offset, result,
                 init_visits, write_visits, trav, second, driver, stack>>

(***************************************************************************)
(* CompilerDriver::RecordClassStatus, called by threads of the driver.     *)
(***************************************************************************)
\* mirror::Class::Status in the order of its values, from kStatusError = -1
ClassStatusOrder ==
  << "kStatusError", kStatusNotReady, "kStatusIdx", "kStatusLoaded", "kStatusResolved",
     "kStatusVerifying", "kStatusRetryVerificationAtRuntime", "kStatusVerifyingAtRuntime",
     "kStatusVerified", "kStatusInitializing", "kStatusInitialized" >>

\* a call of RecordClassStatus that overwrites whatever is recorded
RecordClassStatusOverwrite(self, ref, status) ==
  /\ pc = "RecordClassStatus"
  /\ ~driver.aborted
  /\ driver' =
       [driver EXCEPT
          !.last = [self |-> self, ref |-> ref, status |-> status,
                    before |-> driver.compiled_classes_[ref]],
          !.compiled_classes_[ref] = status]
  /\ UNCHANGED <<inputs, pc, offset, writer, out, file_offset, relative_offset, result,
                 init_visits, write_visits, trav, second, manager, stack>>

\* RecordClassStatus(ref, status), all of it under compiled_classes_lock_:
\* nothing when the entry has this status; CHECK_GT(status, the entry's
\* status) when there is an entry; LOG(FATAL) for a status that is not one
\* of the five of the switch; else Overwrite(ref, new CompiledClass(status))
RecordClassStatus(self, ref, status) ==
  /\ pc = "RecordClassStatus"
  /\ ~driver.aborted
  /\ driver' =
       [driver EXCEPT
          !.last = [self |-> self, ref |-> ref, status |-> status,
                    before |-> driver.compiled_classes_[ref]],
          !.aborted =
             /\ driver.compiled_classes_[ref] # status
             /\ \/ /\ driver.compiled_classes_[ref] # "none"
                   /\ \A i, j \in DOMAIN ClassStatusOrder :
                        /\ ClassStatusOrder[i] = status
                        /\ ClassStatusOrder[j] = driver.compiled_classes_[ref]
                        => i <= j
                \/ status \notin {kStatusNotReady, "kStatusError",
                                  "kStatusRetryVerificationAtRuntime", "kStatusVerified",
                                  "kStatusInitialized"},
          !.compiled_classes_[ref] =
             IF \/ @ = status
                \/ /\ @ # "none"
                   /\ \A i, j \in DOMAIN ClassStatusOrder :
                        ClassStatusOrder[i] = status /\ ClassStatusOrder[j] = @ => i <= j
                \/ status \notin {kStatusNotReady, "kStatusError",
                                  "kStatusRetryVerificationAtRuntime", "kStatusVerified",
                                  "kStatusInitialized"}
             THEN @
             ELSE status]
  /\ UNCHANGED <<inputs, pc, offset, writer, out, file_offset, relative_offset, result,
                 init_visits, write_visits, trav, second, manager, stack>>

(***************************************************************************)
(* gc::accounting::AtomicStack: threads that call AtomicPushBack and       *)
(* AtomicBumpBack. A thread makes the calls of its program one after the   *)
(* other; the value of the k-th call of thread t is 10 * t + k. The        *)
(* debug_is_sorted_ of a debug build is left out.                          *)
(***************************************************************************)
\* the call a thread makes next, at the top of the loop of its function
StackCallEntry(thread) ==
  IF thread.call > Len(thread.program) THEN "done"
  ELSE IF thread.program[thread.call].op = "AtomicPushBack" THEN "PushLoad"
  ELSE "BumpLoad"

\* a call returns ret to thread t, which goes on to its next call
StackReturns(s, t, ret) ==
  [s EXCEPT
     !.returned = @ \cup {[thread |-> t, call |-> s.threads[t].call,
                           op |-> s.threads[t].program[s.threads[t].call].op,
                           value |-> 10 * t + s.threads[t].call,
                           num_slots |-> s.threads[t].program[s.threads[t].call].num_slots,
                           index |-> s.threads[t].index,
                           new_index |-> s.threads[t].new_index,
                           ret |-> ret]},
     !.threads[t] = [s.threads[t] EXCEPT
                       !.call = s.threads[t].call + 1,
                       !.at = StackCallEntry([program |-> s.threads[t].program,
                                              call |-> s.threads[t].call + 1])]]

\* AtomicPushBack, the body of its loop: "index = back_index_", and the
\* return of false for an index at or above capacity_
AtomicPushBackLoad(t) ==
  /\ pc = "AtomicStack"
  /\ t \in DOMAIN stack.threads
  /\ stack.threads[t].at = "PushLoad"
  /\ stack' =
       IF stack.back_index_ >= stack.capacity_
       THEN StackReturns([stack EXCEPT !.threads[t].index = stack.back_index_,
                                       !.threads[t].new_index = stack.back_index_], t, FALSE)
       ELSE [stack EXCEPT !.threads[t].index = stack.back_index_,
                          !.threads[t].new_index = stack.back_index_ + 1,
                          !.threads[t].at = "PushCompareAndSwap"]
  /\ UNCHANGED <<inputs, pc, offset, writer, out, file_offset, relative_offset, result,
                 init_visits, write_visits, trav, second, manager, driver>>

\* a store of index + 1 to back_index_ that does not compare
AtomicPushBackSwap(t) ==
  /\ pc = "AtomicStack"
  /\ t \in DOMAIN stack.threads
  /\ stack.threads[t].at = "PushCompareAndSwap"
  /\ stack' = [stack EXCEPT !.back_index_ = stack.threads[t].index + 1,
                            !.threads[t].at = "PushStore"]
  /\ UNCHANGED <<inputs, pc, offset, writer, out, file_offset, relative_offset, result,
                 init_visits, write_visits, trav, second, manager, driver>>

\* AtomicPushBack, the condition of its loop:
\* "while (!back_index_.CompareAndSwap(index, index + 1))"
AtomicPushBackCompareAndSwap(t) ==
  /\ pc = "AtomicStack"
  /\ t \in DOMAIN stack.threads
  /\ stack.threads[t].at = "PushCompareAndSwap"
  /\ stack' =
       IF stack.back_index_ = stack.threads[t].index
       THEN [stack EXCEPT !.back_index_ = stack.threads[t].index + 1,
                          !.threads[t].at = "PushStore"]
       ELSE [stack EXCEPT !.threads[t].at = "PushLoad"]
  /\ UNCHANGED <<inputs, pc, offset, writer, out, file_offset, relative_offset, result,
                 init_visits, write_visits, trav, second, manager, driver>>

\* AtomicPushBack after its loop: "begin_[index] = value; return true;"
AtomicPushBackStore(t) ==
  /\ pc = "AtomicStack"
  /\ t \in DOMAIN stack.threads
  /\ stack.threads[t].at = "PushStore"
  /\ stack' = StackReturns([stack EXCEPT !.begin_[stack.threads[t].index + 1] =
                                            10 * t + stack.threads[t].call], t, TRUE)
  /\ UNCHANGED <<inputs, pc, offset, writer, out, file_offset, relative_offset, result,
                 init_visits, write_visits, trav, second, manager, driver>>

\* AtomicBumpBack, the body of its loop: "index = back_index_; new_index =
\* index + num_slots", and the return of false for a new_index at or above
\* capacity_
AtomicBumpBackLoad(t) ==
  /\ pc = "AtomicStack"
  /\ t \in DOMAIN stack.threads
  /\ stack.threads[t].at = "BumpLoad"
  /\ \E new_index \in {stack.back_index_
                         + stack.threads[t].program[stack.threads[t].call].num_slots} :
       stack' =
         IF new_index >= stack.capacity_
         THEN StackReturns([stack EXCEPT !.threads[t].index = stack.back_index_,
                                         !.threads[t].new_index = new_index], t, FALSE)
         ELSE [stack EXCEPT !.threads[t].index = stack.back_index_,
                            !.threads[t].new_index = new_index,
                            !.threads[t].at = "BumpCompareAndSwap"]
  /\ UNCHANGED <<inputs, pc, offset, writer, out, file_offset, relative_offset, result,
                 init_visits, write_visits, trav, second, manager, driver>>

\* AtomicBumpBack, the condition of its loop:
\* "while (!back_index_.CompareAndSwap(index, new_index))", and after it the
\* addresses of begin_[index] and begin_[new_index] and the return of true
AtomicBumpBackCompareAndSwap(t) ==
  /\ pc = "AtomicStack"
  /\ t \in DOMAIN stack.threads
  /\ stack.threads[t].at = "BumpCompareAndSwap"
  /\ stack' =
       IF stack.back_index_ = stack.threads[t].index
       THEN StackReturns([stack EXCEPT !.back_index_ = stack.threads[t].new_index], t, TRUE)
       ELSE [stack EXCEPT !.threads[t].at = "BumpLoad"]
  /\ UNCHANGED <<inputs, pc, offset, writer, out, file_offset, relative_offset, result,
                 init_visits, write_visits, trav, second, manager, driver>>

(***************************************************************************)
(* Specifications.                                                         *)
(***************************************************************************)
InitWriter ==
  /\ NoThreads
  /\ image \in BOOLEAN
  /\ instruction_set \in InstructionSets
  /\ compilation = CompileAllDone(dex_files)
  /\ pc = "InitOatHeader"
  /\ offset = 0
  /\ writer = [NewOatWriter EXCEPT
                 !.compiler_driver_ = NewCompilerDriver(image, generate_gdb_information)]
  /\ out = NewSink(0)
  /\ file_offset = 0
  /\ relative_offset = 0
  /\ result = "none"
  /\ init_visits = <<>>
  /\ write_visits = <<>>
  /\ trav = NoTraversal
  /\ second = NoSecondWriter

\* the writer on a sink whose operations all succeed
Init ==
  /\ dex_files \in InputDexFiles
  /\ generate_gdb_information = FALSE
  /\ InitWriter
  /\ sink_may_fail = FALSE

\* the writer on a sink whose operations may fail
InitIO ==
  /\ dex_files \in InputIODexFiles
  /\ generate_gdb_information = FALSE
  /\ InitWriter
  /\ sink_may_fail = TRUE

\* the constructor alone
InitLayout ==
  /\ dex_files \in InputLayoutDexFiles
  /\ generate_gdb_information \in BOOLEAN
  /\ InitWriter
  /\ sink_may_fail = FALSE

InitTraverse ==
  /\ NoThreads
  /\ dex_files \in InputDexFiles
  /\ image = FALSE
  /\ instruction_set = "kThumb2"
  /\ sink_may_fail = FALSE
  /\ generate_gdb_information = FALSE
  /\ compilation = CompileAllDone(dex_files)
  /\ pc = "traverse"
  /\ offset = 0
  /\ writer = NewOatWriter
  /\ out = NewSink(0)
  /\ file_offset = 0
  /\ relative_offset = 0
  /\ result = "none"
  /\ init_visits = <<>>
  /\ write_visits = <<>>
  /\ second = NoSecondWriter
  /\ \E k \in 0..Len(TraversalCalls(dex_files)) :
       trav = [calls |-> TraversalCalls(dex_files), fail_at |-> k, log |-> <<>>,
               returned |-> "none"]

\* CreateOatFile from the call of CompileAll
InitCompile ==
  /\ NoThreads
  /\ dex_files \in DexFilesUpTo(MaxCompileDexFiles, MaxCompileClassDefs, MaxCompileMethods)
  /\ image = FALSE
  /\ instruction_set = "kThumb2"
  /\ generate_gdb_information = FALSE
  /\ sink_may_fail = FALSE
  /\ compilation = NewCompilation
  /\ pc = "CompileAll"
  /\ offset = 0
  /\ writer = [NewOatWriter EXCEPT
                 !.compiler_driver_ = NewCompilerDriver(image, generate_gdb_information)]
  /\ out = NewSink(0)
  /\ file_offset = 0
  /\ relative_offset = 0
  /\ result = "none"
  /\ init_visits = <<>>
  /\ write_visits = <<>>
  /\ trav = NoTraversal
  /\ second = NoSecondWriter

Next ==
  \/ InitOatHeader
  \/ InitOatDexFiles
  \/ InitDexFiles
  \/ InitOatClasses
  \/ InitOatCode
  \/ InitOatCodeDexFiles
  \/ WriteOatHeader
  \/ WriteTables
  \/ WriteCode
  \/ WriteCodeDexFiles
  \/ WriteFinish

NextLayout ==
  \/ InitOatHeader
  \/ InitOatDexFiles
  \/ InitDexFiles
  \/ InitOatClasses
  \/ InitOatCode
  \/ InitOatCodeDexFiles
  \/ ConstructAgain

NextCompile ==
  \/ ForAll
  \/ TaskNextIndex
  \/ TaskCallback
  \/ ForAllReturn
  \/ CompileAllReturn
  \/ InitOatHeader
  \/ InitOatDexFiles
  \/ InitDexFiles
  \/ InitOatClasses
  \/ InitOatCode
  \/ InitOatCodeDexFiles
  \/ WriteOatHeader
  \/ WriteTables
  \/ WriteCode
  \/ WriteCodeDexFiles
  \/ WriteFinish

NextTraverse ==
  \/ ProcessDexMethodsCallback
  \/ ProcessDexMethodsReturn

Spec == Init /\ [][Next]_vars

SpecIO == InitIO /\ [][Next]_vars

SpecLayout == InitLayout /\ [][NextLayout]_vars

SpecTraverse == InitTraverse /\ [][NextTraverse]_vars

SpecCompile == InitCompile /\ [][NextCompile]_vars

(***************************************************************************)
(* The threads: a ForAll of CompileClass, calls of RecordClassStatus, or   *)
(* calls on an AtomicStack.                                                *)
(***************************************************************************)
\* the dex files a ForAll compiles: one dex file, with method 0, which is
\* abstract, and method 1, which the backend compiles
InputForAllDexFiles ==
  {dfs \in DexFilesUpTo(1, MaxForAllClassDefs, MaxForAllMethods) :
     /\ Len(dfs) = 1
     /\ \A c \in DOMAIN dfs[1].class_defs :
          \A m \in DOMAIN (dfs[1].class_defs[c].direct_methods
                             \o dfs[1].class_defs[c].virtual_methods) :
            (dfs[1].class_defs[c].direct_methods
               \o dfs[1].class_defs[c].virtual_methods)[m] \in 0..1}

\* the calls a thread makes on the stack
StackPrograms ==
  UNION {[1..n -> {[op |-> "AtomicPushBack", num_slots |-> 1]}
                  \cup {[op |-> "AtomicBumpBack", num_slots |-> k] : k \in 0..MaxNumSlots}] :
           n \in 0..MaxStackCalls}

InitThreads ==
  /\ image = FALSE
  /\ instruction_set = "kThumb2"
  /\ sink_may_fail = FALSE
  /\ generate_gdb_information = FALSE
  /\ compilation = NewCompilation
  /\ offset = 0
  /\ writer = NewOatWriter
  /\ out = NewSink(0)
  /\ file_offset = 0
  /\ relative_offset = 0
  /\ result = "none"
  /\ init_visits = <<>>
  /\ write_visits = <<>>
  /\ trav = NoTraversal
  /\ second = NoSecondWriter
  /\ \/ /\ pc = "ForAll"
        /\ dex_files \in InputForAllDexFiles
        /\ \E begin \in 0..MaxForAllBegin, end \in 0..Len(dex_files[1].class_defs),
              work_units \in 1..MaxWorkUnits :
             manager = [NoManager EXCEPT !.begin = begin, !.end_ = end,
                                         !.work_units = work_units]
        /\ driver = NoDriver
        /\ stack = NoStack
     \/ /\ pc = "RecordClassStatus"
        /\ dex_files = <<>>
        /\ manager = NoManager
        /\ driver = [NoDriver EXCEPT !.compiled_classes_ = [ref \in 0..(MaxStatusClassDefs - 1) |-> "none"]]
        /\ stack = NoStack
     \/ /\ pc = "AtomicStack"
        /\ dex_files = <<>>
        /\ manager = NoManager
        /\ driver = NoDriver
        /\ \E capacity \in 1..MaxCapacity, programs \in [1..StackThreads -> StackPrograms] :
             stack = [NoStack EXCEPT
                        !.capacity_ = capacity,
                        !.begin_ = [i \in 1..capacity |-> 0],
                        !.threads = [t \in 1..StackThreads |->
                                       [program |-> programs[t], call |-> 1, index |-> 0,
                                        new_index |-> 0,
                                        at |-> StackCallEntry([program |-> programs[t],
                                                               call |-> 1])]]]

NextThreads ==
  \/ ManagerForAll
  \/ \E t \in 1..MaxWorkUnits : ForAllClosureRun(t)
  \/ \E t \in 1..MaxWorkUnits : CompileMethodDCheck(t)
  \/ \E t \in 1..MaxWorkUnits : CompileMethodPut(t)
  \/ ManagerForAllWait
  \/ \E self \in 1..StatusThreads, ref \in 0..(MaxStatusClassDefs - 1),
        i \in DOMAIN ClassStatusOrder : RecordClassStatus(self, ref, ClassStatusOrder[i])
  \/ \E t \in 1..StackThreads : AtomicPushBackLoad(t)
  \/ \E t \in 1..StackThreads : AtomicPushBackCompareAndSwap(t)
  \/ \E t \in 1..StackThreads : AtomicPushBackStore(t)
  \/ \E t \in 1..StackThreads : AtomicBumpBackLoad(t)
  \/ \E t \in 1..StackThreads : AtomicBumpBackCompareAndSwap(t)

SpecThreads == InitThreads /\ [][NextThreads]_vars

\* every task of the thread pool goes on running until its Run returns, and
\* so does the thread that calls ForAll and waits in it
SpecThreadsLive ==
  /\ SpecThreads
  /\ \A t \in 1..MaxWorkUnits :
       WF_vars(ForAllClosureRun(t) \/ CompileMethodDCheck(t) \/ CompileMethodPut(t))
  /\ WF_vars(ManagerForAll \/ ManagerForAllWait)



(***************************************************************************)
(* Properties.                                                             *)
(***************************************************************************)
\* Write has made its last sink operation and none has failed
WriteCompleted == pc = "WriteFinish" \/ (pc = "done" /\ result = "true")

WriteEndsAtSize ==
  pc = "done" =>
    /\ result = "true"
    /\ out.pos = file_offset + writer.size_
    /\ relative_offset = writer.size_

\* a Write that returned true on a sink that started at a position other
\* than 0, with a class whose descriptor holds a bitmap
WriteEndsAtSizeWitness ==
  /\ pc = "done"
  /\ result = "true"
  /\ file_offset > 0
  /\ out.pos = file_offset + writer.size_
  /\ \E i \in 1..Len(writer.oat_classes_) : writer.oat_classes_[i].method_bitmap_size_ > 0

\* the number of non-null entries of a class descriptor's compiled_methods_
NumNonNull(oat_class) ==
  Cardinality({i \in 1..Len(oat_class.compiled_methods_) :
                 ~oat_class.compiled_methods_[i].is_null})

\* C10: a class descriptor with N method slots of which c hold a compiled
\* method has type NONE_COMPILED when N = 0, ALL_COMPILED when c = N > 0 and
\* SOME_COMPILED when 0 < c < N, and two descriptors with the same c and N
\* have the same type.
ClassClassification ==
  \A i \in 1..Len(writer.oat_classes_) :
    LET oat_class == writer.oat_classes_[i]
        n == Len(oat_class.compiled_methods_)
        c == NumNonNull(oat_class)
    IN /\ n = 0 => oat_class.type_ = kOatClassNoneCompiled
       /\ (c = n /\ n > 0) => oat_class.type_ = kOatClassAllCompiled
       /\ (0 < c /\ c < n) => oat_class.type_ = kOatClassSomeCompiled
       /\ \A j \in 1..Len(writer.oat_classes_) :
            (Len(writer.oat_classes_[j].compiled_methods_) = n
             /\ NumNonNull(writer.oat_classes_[j]) = c)
            => writer.oat_classes_[j].type_ = oat_class.type_

\* descriptors of a class with no method and of a class with one compiled
\* method out of two
ClassClassificationWitness ==
  \E i, j \in 1..Len(writer.oat_classes_) :
    /\ Len(writer.oat_classes_[i].compiled_methods_) = 0
    /\ writer.oat_classes_[i].type_ = kOatClassNoneCompiled
    /\ Len(writer.oat_classes_[j].compiled_methods_) = 2
    /\ NumNonNull(writer.oat_classes_[j]) = 1
    /\ writer.oat_classes_[j].type_ = kOatClassSomeCompiled

\* the offset recorded for a blob that is laid out, or written, at cursor
RecordedWhenNew(v) ==
  IF v.kind = "code"
  THEN v.cursor + SizeofOatMethodHeader + CodeDelta(instruction_set)
  ELSE v.cursor

\* how many WriteFully calls of the Write passed the blob as the kind
Emitted(kind, blob) ==
  Cardinality({k \in 1..Len(out.log) : out.log[k].what = <<kind, blob>>})

\* both passes visited the same methods for the same kinds in the same order
SameVisits ==
  /\ Len(write_visits) = Len(init_visits)
  /\ \A i \in 1..Len(write_visits) :
       /\ write_visits[i].kind = init_visits[i].kind
       /\ write_visits[i].blob = init_visits[i].blob
       /\ write_visits[i].oat_class_index = init_visits[i].oat_class_index
       /\ write_visits[i].method_offsets_index = init_visits[i].method_offsets_index

\* C3 (as amended): for every blob kind and every compiled method visited
\* in the write pass, the cursor and the recorded offset are those of the
\* layout pass; a side table is written when its recorded offset equals the
\* cursor, code is written when its recorded offset equals the aligned
\* cursor plus the method header's size plus the code delta, and otherwise
\* the recorded offset is strictly less than the cursor and nothing is
\* written; a blob is written exactly for the method for which the layout
\* pass found it new.
PassEquivalence ==
  WriteCompleted =>
    /\ SameVisits
    /\ \A i \in 1..Len(write_visits) :
         LET v == write_visits[i]
             u == init_visits[i]
         IN /\ v.cursor = u.cursor
            /\ v.recorded = u.recorded
            /\ v.acted = u.acted
            /\ v.acted => v.recorded = RecordedWhenNew(v)
            /\ ~v.acted => v.recorded < v.cursor
            /\ Emitted(v.kind, v.blob) =
                 Cardinality({j \in 1..Len(init_visits) :
                                /\ init_visits[j].kind = v.kind
                                /\ init_visits[j].blob = v.blob
                                /\ init_visits[j].acted})

\* C3 as stated: the recorded offset equals the cursor when the blob is
\* written and is strictly less when it is skipped, for code as well.
PassEquivalenceAtCursor ==
  WriteCompleted =>
    /\ SameVisits
    /\ \A i \in 1..Len(write_visits) :
         LET v == write_visits[i]
         IN /\ v.acted = init_visits[i].acted
            /\ v.acted => v.recorded = v.cursor
            /\ ~v.acted => v.recorded < v.cursor

\* a Write in which code was written for one method and skipped for
\* another, and a side table likewise
PassEquivalenceWitness ==
  /\ pc = "done"
  /\ result = "true"
  /\ \E i, j \in 1..Len(write_visits) :
       /\ write_visits[i].kind = "code"
       /\ write_visits[j].kind = "code"
       /\ write_visits[i].acted
       /\ ~write_visits[j].acted
  /\ \E i, j \in 1..Len(write_visits) :
       /\ write_visits[i].kind = "gc_map"
       /\ write_visits[j].kind = "gc_map"
       /\ write_visits[i].acted
       /\ ~write_visits[j].acted
       /\ BlobSize(write_visits[j].blob) > 0

\* the bytes of the object a pointer names
ContentOf(ptr) == ptr[2]

IsMapKind(kind) == \E k \in 1..Len(MapKinds) : MapKinds[k] = kind

TableOfKind(kind) ==
  IF kind = "code" THEN writer.code_offsets_
  ELSE IF kind = "gc_map" THEN writer.gc_map_offsets_
  ELSE IF kind = "mapping_table" THEN writer.mapping_table_offsets_
  ELSE writer.vmap_table_offsets_

DedupeSetOfKind(kind) ==
  IF kind = "code" THEN "dedupe_code_"
  ELSE IF kind = "gc_map" THEN "dedupe_gc_map_"
  ELSE IF kind = "mapping_table" THEN "dedupe_mapping_table_"
  ELSE "dedupe_vmap_table_"

BlobKinds == {"code", "gc_map", "mapping_table", "vmap_table"}

\* C5: each of the four dedup tables holds blobs of its own kind only, the
\* offset recorded for a method's blob of a kind is the one the table of
\* that kind holds, and bytes used as two kinds have one offset per kind and
\* are emitted once per kind.
TablesIndependent ==
  WriteCompleted =>
    /\ \A kind \in BlobKinds :
         \A e \in 1..Len(TableOfKind(kind)) :
           /\ TableOfKind(kind)[e].key[1] = DedupeSetOfKind(kind)
           /\ \A f \in 1..Len(TableOfKind(kind)) :
                TableOfKind(kind)[e].key = TableOfKind(kind)[f].key => e = f
    /\ \A i \in 1..Len(write_visits) :
         LET v == write_visits[i]
         IN BlobSize(v.blob) > 0 =>
              /\ \E e \in 1..Len(TableOfKind(v.kind)) :
                   /\ TableOfKind(v.kind)[e].key = v.blob
                   /\ TableOfKind(v.kind)[e].value = v.recorded
              /\ Emitted(v.kind, v.blob) = 1
    /\ \A i, j \in 1..Len(write_visits) :
         LET u == write_visits[i]
             v == write_visits[j]
         IN (u.kind # v.kind /\ BlobSize(u.blob) > 0 /\ BlobSize(v.blob) > 0)
            => u.recorded # v.recorded

\* a Write for a method whose code, GC map, mapping table and vmap table all
\* have the same bytes
TablesIndependentWitness ==
  /\ pc = "done"
  /\ result = "true"
  /\ \E i, j, k, l \in 1..Len(write_visits) :
       /\ write_visits[i].kind = "code"
       /\ write_visits[j].kind = "gc_map"
       /\ write_visits[k].kind = "mapping_table"
       /\ write_visits[l].kind = "vmap_table"
       /\ write_visits[i].oat_class_index = write_visits[j].oat_class_index
       /\ write_visits[i].method_offsets_index = write_visits[j].method_offsets_index
       /\ BlobSize(write_visits[i].blob) > 0
       /\ ContentOf(write_visits[i].blob) = ContentOf(write_visits[j].blob)
       /\ ContentOf(write_visits[i].blob) = ContentOf(write_visits[k].blob)
       /\ ContentOf(write_visits[i].blob) = ContentOf(write_visits[l].blob)

\* the entries of trav.log from StartClass at s are the calls for class c of
\* module d
ClassBlock(s, d, c) ==
  LET L == trav.log
      cd == dex_files[d].class_defs[c]
      nd == Len(cd.direct_methods)
      nv == Len(cd.virtual_methods)
      OfClass(k) == L[k].dex = d /\ L[k].class_def_index = c - 1
  IN /\ s + nd + nv + 1 <= Len(L)
     /\ L[s].call = "StartClass"
     /\ OfClass(s)
     /\ \A k \in 1..nd :
          /\ L[s + k].call = "ProcessMethod"
          /\ OfClass(s + k)
          /\ L[s + k].class_def_method_index = k - 1
          /\ L[s + k].method_idx = cd.direct_methods[k]
          /\ L[s + k].direct
     /\ \A k \in 1..nv :
          /\ L[s + nd + k].call = "ProcessMethod"
          /\ OfClass(s + nd + k)
          /\ L[s + nd + k].class_def_method_index = nd + k - 1
          /\ L[s + nd + k].method_idx = cd.virtual_methods[k]
          /\ ~L[s + nd + k].direct
     /\ L[s + nd + nv + 1].call = "EndClass"
     /\ OfClass(s + nd + nv + 1)
     /\ ~cd.has_class_data => L[s + 1].call = "EndClass"

\* class c2 of module d2 is the class after class c1 of module d1
NextClass(d1, c1, d2, c2) ==
  \/ d2 = d1 /\ c2 = c1 + 1
  \/ /\ d1 < d2
     /\ c1 = Len(dex_files[d1].class_defs)
     /\ c2 = 1
     /\ \A d \in (d1 + 1)..(d2 - 1) : Len(dex_files[d].class_defs) = 0

\* C6: a traversal that returns true has made, for the classes of the
\* modules in input order and class-def index order, StartClass, then
\* ProcessMethod for the direct methods and then the virtual methods in
\* declared order with ordinals 0, 1, 2, ..., then EndClass, and nothing
\* else; a class with no class data has StartClass and EndClass only.
TraversalOrder ==
  trav.returned = "true" =>
    LET L == trav.log
        HasClasses == {d \in 1..Len(dex_files) : Len(dex_files[d].class_defs) > 0}
    IN /\ HasClasses = {} => Len(L) = 0
       /\ HasClasses # {} =>
            /\ Len(L) > 0
            /\ L[1].call = "StartClass"
            /\ L[1].dex \in HasClasses
            /\ \A d \in HasClasses : L[1].dex <= d
            /\ L[1].class_def_index = 0
            /\ L[Len(L)].call = "EndClass"
            /\ \A d \in HasClasses : d <= L[Len(L)].dex
            /\ L[Len(L)].class_def_index + 1 = Len(dex_files[L[Len(L)].dex].class_defs)
       /\ \A s \in 1..Len(L) :
            /\ L[s].call = "StartClass" =>
                 /\ L[s].dex \in HasClasses
                 /\ L[s].class_def_index + 1 <= Len(dex_files[L[s].dex].class_defs)
                 /\ ClassBlock(s, L[s].dex, L[s].class_def_index + 1)
            /\ (L[s].call = "EndClass" /\ s < Len(L)) =>
                 /\ L[s + 1].call = "StartClass"
                 /\ L[s + 1].dex \in 1..Len(dex_files)
                 /\ NextClass(L[s].dex, L[s].class_def_index + 1,
                              L[s + 1].dex, L[s + 1].class_def_index + 1)

\* a traversal that returned true over two modules, with a class that has
\* a direct and a virtual method and a class with no class data
TraversalOrderWitness ==
  /\ trav.returned = "true"
  /\ Len(dex_files) = 2
  /\ \E d1, d2 \in 1..Len(dex_files) :
       \E c1 \in 1..Len(dex_files[d1].class_defs) :
         \E c2 \in 1..Len(dex_files[d2].class_defs) :
           /\ Len(dex_files[d1].class_defs[c1].direct_methods) = 1
           /\ Len(dex_files[d1].class_defs[c1].virtual_methods) = 1
           /\ ~dex_files[d2].class_defs[c2].has_class_data
  /\ Len(trav.log) = 6

RECURSIVE ClassDefsFrom(_, _)
\* the class definitions of the modules from the d-th on, in traversal order
ClassDefsFrom(dfs, d) ==
  IF d > Len(dfs) THEN <<>> ELSE dfs[d].class_defs \o ClassDefsFrom(dfs, d + 1)

\* the encoded methods of a class: their method indices, in declared order
MethodList(cd) == cd.direct_methods \o cd.virtual_methods

Constructed == pc \in {"Write", "WriteTables", "WriteCode", "WriteCodeDexFiles",
                       "WriteFinish", "done"}

\* the ordinals with which the layout pass of the GC maps recorded an
\* offset for a method of the g-th class
RecordedOrdinals(g) ==
  {init_visits[i].class_def_method_index :
     i \in {j \in 1..Len(init_visits) : /\ init_visits[j].kind = "gc_map"
                                        /\ init_visits[j].oat_class_index = g - 1}}

FailFast ==
  /\ trav.fail_at > 0 => Len(trav.log) <= trav.fail_at
  /\ trav.fail_at > 0 => trav.returned # "true"
  /\ trav.returned = "false" => Len(trav.log) = trav.fail_at

\* a traversal that returned false from a ProcessMethod with another method
\* of the class, its EndClass and another class still to come
FailFastWitness ==
  /\ trav.returned = "false"
  /\ Len(trav.log) = trav.fail_at
  /\ trav.fail_at + 3 <= Len(trav.calls)
  /\ trav.calls[trav.fail_at].call = "ProcessMethod"
  /\ trav.calls[trav.fail_at + 1].call = "ProcessMethod"
  /\ trav.calls[trav.fail_at + 2].call = "EndClass"
  /\ trav.calls[trav.fail_at + 3].call = "StartClass"

\* the first operation of the sink that failed was a Seek to a trampoline's
\* alignment
TrampolineSeekFailed == out.failed /\ out.failed_op[1] = "seek_trampoline_alignment"

\* C9 as stated: once a WriteFully or a Seek of the sink has failed, Write
\* has returned false and has made no further WriteFully.
SinkFailureEndsWrite ==
  out.failed =>
    /\ pc = "done"
    /\ result = "false"
    /\ out.writes_after_failure = 0

\* what holds of C9: a failure of any operation but the Seek to a
\* trampoline's alignment ends Write with false and no further WriteFully.
CheckedSinkFailureEndsWrite ==
  (out.failed /\ ~TrampolineSeekFailed) =>
    /\ pc = "done"
    /\ result = "false"
    /\ out.writes_after_failure = 0

\* a Write in which a write of code failed
CheckedSinkFailureWitness ==
  /\ out.failed
  /\ out.failed_op[1] = "code"
  /\ result = "false"

\* a Write that went on to write a trampoline after the Seek to its
\* alignment had failed
TrampolineSeekFailureWitness ==
  /\ TrampolineSeekFailed
  /\ out.writes_after_failure > 0

\* C11: a class descriptor has a method bitmap exactly when its type is
\* SOME_COMPILED; bit i of the bitmap is set exactly when method slot i
\* holds a compiled method, and the number of set bits is the number of
\* per-method offset records of the class.
BitmapMatchesRecords ==
  \A g \in 1..Len(writer.oat_classes_) :
    LET oat_class == writer.oat_classes_[g]
        n == Len(oat_class.compiled_methods_)
    IN /\ oat_class.has_method_bitmap_ <=> oat_class.type_ = kOatClassSomeCompiled
       /\ oat_class.method_bitmap_size_ > 0 <=> oat_class.has_method_bitmap_
       /\ ~oat_class.has_method_bitmap_ => oat_class.method_bitmap_ = {}
       /\ oat_class.has_method_bitmap_ =>
            /\ oat_class.method_bitmap_ \subseteq 0..(n - 1)
            /\ \A i \in 0..(n - 1) :
                 i \in oat_class.method_bitmap_ <=> ~oat_class.compiled_methods_[i + 1].is_null
            /\ Cardinality(oat_class.method_bitmap_) = Len(oat_class.method_offsets_)
            /\ oat_class.method_bitmap_size_ = BitVectorSizeOf(n)

\* the descriptor of a class with a compiled method followed by an abstract
\* one: bit 0 set, bit 1 clear, one record
BitmapMatchesRecordsWitness ==
  \E g \in 1..Len(writer.oat_classes_) :
    /\ writer.oat_classes_[g].type_ = kOatClassSomeCompiled
    /\ Len(writer.oat_classes_[g].compiled_methods_) = 2
    /\ writer.oat_classes_[g].method_bitmap_ = {0}
    /\ Len(writer.oat_classes_[g].method_offsets_) = 1

\* the classes of the modules before the d-th
ClassesBefore(d) == Len(ClassDefsFrom(dex_files, 1)) - Len(ClassDefsFrom(dex_files, d))

\* InitOatClasses has returned
ClassesLaidOut == pc \in {"InitOatCode", "InitOatCodeDexFiles"} \/ Constructed

\* C12: after layout every module descriptor's class-offset list has one
\* entry per class of the module, entry k is the offset of the descriptor
\* built for the module's k-th class in traversal order, and the
\* descriptors are consumed exactly: there is one per class over all
\* modules and the CHECK at the end of InitOatClasses never fires.
ClassOffsetsScattered ==
  /\ pc # "abort"
  /\ ClassesLaidOut =>
       /\ Len(writer.oat_dex_files_) = Len(dex_files)
       /\ Len(writer.oat_classes_) = Len(ClassDefsFrom(dex_files, 1))
       /\ \A d \in 1..Len(dex_files) :
            /\ Len(writer.oat_dex_files_[d].methods_offsets_) = Len(dex_files[d].class_defs)
            /\ \A k \in 1..Len(dex_files[d].class_defs) :
                 LET oat_class == writer.oat_classes_[ClassesBefore(d) + k]
                 IN /\ writer.oat_dex_files_[d].methods_offsets_[k] = oat_class.offset_
                    /\ Len(oat_class.compiled_methods_) =
                         Len(MethodList(dex_files[d].class_defs[k]))
       /\ \A g, h \in 1..Len(writer.oat_classes_) :
            g < h => writer.oat_classes_[g].offset_ < writer.oat_classes_[h].offset_

\* a layout of two modules, the first with no class and the second with
\* two classes of different sizes
ClassOffsetsScatteredWitness ==
  /\ ClassesLaidOut
  /\ Len(dex_files) = 2
  /\ Len(dex_files[1].class_defs) = 0
  /\ Len(dex_files[2].class_defs) = 2
  /\ Len(writer.oat_dex_files_[2].methods_offsets_) = 2
  /\ writer.oat_dex_files_[2].methods_offsets_[2]
       > writer.oat_dex_files_[2].methods_offsets_[1] + SizeofUint16 + SizeofUint16

\* the offset at which the layout pass put, or the write pass wrote, the
\* code body of a visit: the recorded code offset without the code delta
CodeBodyStart(v) == v.recorded - CodeDelta(instruction_set)

\* the offsets, relative to the start of the oat data, at which Write wrote
\* code bodies
WrittenCodeStarts ==
  {out.log[k].pos - file_offset :
     k \in {j \in 1..Len(out.log) : out.log[j].what[1] = "code"}}

\* C13 as stated: the start offset of every code body, just after the
\* method header and before the code delta is added, is a multiple of the
\* instruction set's code alignment, in the layout pass and in the write pass.
CodeBodyAligned ==
  /\ \A i \in 1..Len(init_visits) :
       init_visits[i].kind = "code" =>
         CodeBodyStart(init_visits[i]) % CodeAlignment(instruction_set) = 0
  /\ \A i \in 1..Len(write_visits) :
       write_visits[i].kind = "code" =>
         CodeBodyStart(write_visits[i]) % CodeAlignment(instruction_set) = 0
  /\ \A start \in WrittenCodeStarts : start % CodeAlignment(instruction_set) = 0

\* what holds of C13: the offset that is aligned is the one of the method
\* header, and the code body starts sizeof(OatMethodHeader) after it, where
\* Write writes it.
MethodHeaderAligned ==
  /\ \A i \in 1..Len(init_visits) :
       LET v == init_visits[i]
       IN v.kind = "code" =>
            /\ v.cursor % CodeAlignment(instruction_set) = 0
            /\ v.acted => CodeBodyStart(v) = v.cursor + SizeofOatMethodHeader
            /\ (CodeBodyStart(v) - SizeofOatMethodHeader) % CodeAlignment(instruction_set) = 0
  /\ \A i \in 1..Len(write_visits) :
       LET v == write_visits[i]
       IN v.kind = "code" =>
            /\ v.cursor % CodeAlignment(instruction_set) = 0
            /\ v.acted => CodeBodyStart(v) = v.cursor + SizeofOatMethodHeader
            /\ v.acted => CodeBodyStart(v) \in WrittenCodeStarts
  /\ \A start \in WrittenCodeStarts :
       (start - SizeofOatMethodHeader) % CodeAlignment(instruction_set) = 0

\* a Write that wrote the code of a method, the code body starting at an
\* offset that is not a multiple of the code alignment
CodeBodyMisalignedWitness ==
  /\ pc = "done"
  /\ result = "true"
  /\ \E i \in 1..Len(write_visits) :
       /\ write_visits[i].kind = "code"
       /\ write_visits[i].acted
       /\ CodeBodyStart(write_visits[i]) \in WrittenCodeStarts
       /\ CodeBodyStart(write_visits[i]) % CodeAlignment(instruction_set) # 0

\* InitDexFiles has returned
DexFilesLaidOut == pc = "InitOatClasses" \/ ClassesLaidOut

\* InitOatCode has returned
CodeStartLaidOut == pc = "InitOatCodeDexFiles" \/ Constructed

\* C14: after layout every module descriptor's dex_file_offset_ is a
\* multiple of 4 and the header's executable offset is a multiple of the
\* page size, whatever the lengths of the location strings, the numbers of
\* classes, the sizes of the dex files and the sizes of the descriptors.
DexAndCodeStartAligned ==
  /\ DexFilesLaidOut =>
       \A d \in 1..Len(writer.oat_dex_files_) :
         /\ writer.oat_dex_files_[d].dex_file_offset_ % kDexAlignment = 0
         /\ writer.oat_dex_files_[d].dex_file_offset_ > 0
  /\ CodeStartLaidOut =>
       /\ writer.oat_header_.executable_offset_ % kPageSize = 0
       /\ writer.oat_header_.executable_offset_ > 0

\* a layout in which padding was put before a dex file, and another before
\* an executable offset beyond the first page boundary
DexAndCodeStartAlignedWitness ==
  /\ Constructed
  /\ Len(dex_files) = 2
  /\ writer.size_dex_file_alignment_ > 3
  /\ writer.oat_header_.executable_offset_ = 2 * kPageSize
  /\ writer.size_executable_offset_alignment_ > 0

\* the end of the last trampoline laid out, or the executable offset when
\* none is
TrampolinesEnd ==
  IF image
  THEN writer.oat_header_.trampoline_offsets_[Len(TrampolineNames)]
       + TrampolineSize(instruction_set)[Len(TrampolineNames)]
  ELSE writer.oat_header_.executable_offset_

\* what the WriteFully calls of the Write passed, in order
WrittenKinds == [k \in 1..Len(out.log) |-> out.log[k].what[1]]

\* C15 (as amended): with zero input modules the layout produces no module
\* descriptor and no class descriptor, size_ is the header's size plus the
\* image file location's, rounded up to the page size, plus in an image
\* build the trampolines; Write writes the header, the image file location
\* and in an image build the trampolines, and returns true.
ZeroModulesSize ==
  Len(dex_files) = 0 =>
    /\ Len(writer.oat_dex_files_) = 0
    /\ Len(writer.oat_classes_) = 0
    /\ Constructed =>
         /\ writer.oat_header_.executable_offset_ =
              RoundUp(SizeofOatHeader + ImageFileLocationSize(image), kPageSize)
         /\ writer.size_ = TrampolinesEnd
         /\ ~image => writer.size_ = kPageSize
         /\ image => writer.size_ > kPageSize
    /\ pc = "done" =>
         /\ result = "true"
         /\ Len(out.log) >= 2
         /\ out.log[1] = [what |-> <<"oat_header_">>, pos |-> file_offset,
                          size |-> SizeofOatHeader]
         /\ out.log[2].what = <<"image_file_location_">>
         /\ ~image => Len(out.log) = 2
         /\ image => SubSeq(WrittenKinds, 3, Len(out.log)) = TrampolineNames
         /\ out.pos = file_offset + writer.size_

\* C15 as stated: with zero input modules size_ is the fixed header size.
ZeroModulesSizeIsHeader ==
  (Len(dex_files) = 0 /\ Constructed) => writer.size_ = SizeofOatHeader

\* a Write that returned true for zero modules in a build that is not an
\* image build
ZeroModulesSizeWitness ==
  /\ Len(dex_files) = 0
  /\ ~image
  /\ pc = "done"
  /\ result = "true"
  /\ out.written = SizeofOatHeader + ImageFileLocationSize(image)
  /\ writer.size_ = kPageSize

\* how many UpdateChecksum calls of the layout folded what in, with the size
Folded(what, size) ==
  Cardinality({c \in 1..Len(writer.oat_header_.checksum_) :
                 /\ writer.oat_header_.checksum_[c].what = what
                 /\ writer.oat_header_.checksum_[c].size = size})

\* the writes of the header itself, whose checksum field lies in it, and of
\* alignment padding
HeaderOrPadding == {"oat_header_", "image_file_location_", "code_alignment_padding"}

\* the writes of the module descriptors, the method headers, the code and
\* the side tables
DescriptorOrBlob ==
  {"dex_file_location_size_", "dex_file_location_data_", "dex_file_location_checksum_",
   "dex_file_offset_", "methods_offsets_", "method_header", "code", "gc_map",
   "mapping_table", "vmap_table"}

\* C16 as stated: every byte Write commits, other than the header with its
\* checksum field and alignment padding, was folded into the checksum by
\* exactly one UpdateChecksum call of the layout: raw module bytes, class
\* descriptors and trampoline stubs included.
ChecksumCoversOutput ==
  WriteCompleted =>
    \A k \in 1..Len(out.log) :
      (out.log[k].what[1] \notin HeaderOrPadding /\ out.log[k].size > 0)
      => Folded(out.log[k].what, out.log[k].size) = 1

\* what holds of C16: the bytes of the module descriptors, the method
\* headers, the code and the side tables are folded in exactly once, and
\* nothing else that Write commits is folded in at all.
ChecksumCoversDescriptorsAndBlobs ==
  WriteCompleted =>
    \A k \in 1..Len(out.log) :
      /\ (out.log[k].what[1] \in DescriptorOrBlob /\ out.log[k].size > 0)
         => Folded(out.log[k].what, out.log[k].size) = 1
      /\ out.log[k].what[1] \notin DescriptorOrBlob
         => Folded(out.log[k].what, out.log[k].size) = 0

\* a Write that committed the bytes of a dex file, a class descriptor, code
\* and a side table, of which the first two were never folded in
ChecksumGapWitness ==
  /\ pc = "done"
  /\ result = "true"
  /\ \E k, l, m, n \in 1..Len(out.log) :
       /\ out.log[k].what[1] = "dex_file"
       /\ Folded(out.log[k].what, out.log[k].size) = 0
       /\ out.log[l].what[1] = "method_offsets_"
       /\ out.log[l].size > 0
       /\ Folded(out.log[l].what, out.log[l].size) = 0
       /\ out.log[m].what[1] = "code"
       /\ Folded(out.log[m].what, out.log[m].size) = 1
       /\ out.log[n].what[1] = "gc_map"
       /\ Folded(out.log[n].what, out.log[n].size) = 1

\* the WriteFully calls of the Write that passed the k-th trampoline
TrampolineWrites(k) ==
  {j \in 1..Len(out.log) : out.log[j].what = <<TrampolineNames[k]>>}

\* WriteCode has returned
TrampolinesWritten == pc = "WriteCodeDexFiles" \/ WriteCompleted

\* C17: trampolines are laid out exactly in an image build.  In an image
\* build each of the ten header offsets is a multiple of the code alignment
\* and at or after the executable offset, the stubs are in the fixed order
\* and do not overlap, and Write writes each stub once at its offset; in a
\* build that is not an image build all ten offsets are 0, code starts at
\* the executable offset, and no stub byte is written.
TrampolinesIffImage ==
  LET offs == writer.oat_header_.trampoline_offsets_
      size == TrampolineSize(instruction_set)
      n == Len(TrampolineNames)
  IN /\ (CodeStartLaidOut /\ image) =>
          /\ \A k \in 1..n :
               /\ offs[k] % CodeAlignment(instruction_set) = 0
               /\ offs[k] >= writer.oat_header_.executable_offset_
               /\ k < n => offs[k] + size[k] <= offs[k + 1]
          /\ offs[1] = writer.oat_header_.executable_offset_
          /\ pc = "InitOatCodeDexFiles" => offset = offs[n] + size[n]
     /\ (CodeStartLaidOut /\ ~image) =>
          /\ \A k \in 1..n : offs[k] = 0
          /\ pc = "InitOatCodeDexFiles" => offset = writer.oat_header_.executable_offset_
     /\ (TrampolinesWritten /\ image) =>
          \A k \in 1..n :
            /\ Cardinality(TrampolineWrites(k)) = 1
            /\ \A j \in TrampolineWrites(k) :
                 /\ out.log[j].pos = file_offset + offs[k]
                 /\ out.log[j].size = size[k]
            /\ writer.size_trampolines_[k] = size[k]
     /\ ~image =>
          \A k \in 1..n : TrampolineWrites(k) = {} /\ writer.size_trampolines_[k] = 0

\* a Write of an image build that returned true, with padding between two
\* of the stubs it wrote
TrampolinesIffImageWitness ==
  /\ image
  /\ pc = "done"
  /\ result = "true"
  /\ writer.size_trampoline_alignment_ > 0
  /\ Cardinality(TrampolineWrites(Len(TrampolineNames))) = 1

\* the place of a kind of bytes in the order of the regions
RegionRank(kind) ==
  IF kind \in {"code", "method_header", "code_alignment_padding"} THEN 0
  ELSE IF kind = "gc_map" THEN 1
  ELSE IF kind = "mapping_table" THEN 2
  ELSE 3

\* the visits of a pass that found a blob of some size
BlobVisits(visits) == {i \in 1..Len(visits) : BlobSize(visits[i].blob) > 0}

\* where the blob of a visit starts and ends
BlobStart(v) == IF v.kind = "code" THEN CodeBodyStart(v) - SizeofOatMethodHeader ELSE v.recorded

BlobEnd(v) == IF v.kind = "code" THEN CodeBodyStart(v) + BlobSize(v.blob)
              ELSE v.recorded + BlobSize(v.blob)

\* a pass's visits are by region, and every offset recorded for a later
\* region is at or after the end of every earlier region
VisitsByRegion(visits) ==
  /\ \A i, j \in 1..Len(visits) :
       i < j => RegionRank(visits[i].kind) <= RegionRank(visits[j].kind)
  /\ \A i, j \in BlobVisits(visits) :
       RegionRank(visits[i].kind) < RegionRank(visits[j].kind)
       => BlobEnd(visits[i]) <= BlobStart(visits[j])
  /\ \A i \in BlobVisits(visits) : TrampolinesEnd <= BlobStart(visits[i])

\* the WriteFully calls of WriteCodeDexFiles
RegionWrites ==
  {k \in 1..Len(out.log) :
     out.log[k].what[1] \in {"code", "method_header", "code_alignment_padding",
                             "gc_map", "mapping_table", "vmap_table"}}

\* C18: in the layout pass and in the write pass the regions after the
\* trampolines come in the order code (with method headers), GC maps,
\* mapping tables, vmap tables: the passes run in that order, and every
\* offset recorded, and every byte written, for a later region is at or
\* after the end of every earlier region.
RegionsInOrder ==
  /\ Constructed => VisitsByRegion(init_visits)
  /\ WriteCompleted =>
       /\ VisitsByRegion(write_visits)
       /\ \A j, k \in RegionWrites :
            /\ j < k => RegionRank(out.log[j].what[1]) <= RegionRank(out.log[k].what[1])
            /\ RegionRank(out.log[j].what[1]) < RegionRank(out.log[k].what[1])
               => out.log[j].pos + out.log[j].size <= out.log[k].pos
       /\ \A k \in RegionWrites : file_offset + TrampolinesEnd <= out.log[k].pos

\* a Write of an image build that wrote two code bodies, two GC maps, two
\* vmap tables and a mapping table
RegionsInOrderWitness ==
  /\ pc = "done"
  /\ result = "true"
  /\ image
  /\ \A kind \in {"code", "gc_map", "vmap_table"} :
       Cardinality({k \in RegionWrites : out.log[k].what[1] = kind}) = 2
  /\ \E k \in RegionWrites : out.log[k].what[1] = "mapping_table"

\* the slot of a class descriptor that holds its r-th compiled method
SlotOfRecord(oat_class, r) ==
  CHOOSE i \in 1..Len(oat_class.compiled_methods_) :
    /\ ~oat_class.compiled_methods_[i].is_null
    /\ Cardinality({j \in 1..i : ~oat_class.compiled_methods_[j].is_null}) = r

\* C19: after layout, in every per-method offset record the offset of a
\* side table (GC map, mapping table, vmap table) is 0 exactly when the
\* method's side table of that kind is empty, and the code offset is 0
\* exactly when the method has no quick code.
ZeroOffsetMeansAbsent ==
  Constructed =>
    \A g \in 1..Len(writer.oat_classes_) :
      LET oat_class == writer.oat_classes_[g]
      IN /\ Len(oat_class.method_offsets_) = NumNonNull(oat_class)
         /\ \A r \in 1..Len(oat_class.method_offsets_) :
              LET compiled_method == oat_class.compiled_methods_[SlotOfRecord(oat_class, r)]
                  method_offsets == oat_class.method_offsets_[r]
              IN /\ method_offsets.gc_map_offset_ = 0
                      <=> BlobSize(compiled_method.gc_map_) = 0
                 /\ method_offsets.mapping_table_offset_ = 0
                      <=> BlobSize(compiled_method.mapping_table_) = 0
                 /\ method_offsets.vmap_table_offset_ = 0
                      <=> BlobSize(compiled_method.vmap_table_) = 0
                 /\ method_offsets.code_offset_ = 0
                      <=> compiled_method.quick_code_ = NullPtr
                 /\ method_offsets.frame_size_in_bytes_
                      = compiled_method.frame_size_in_bytes_

\* a layout of a class whose first method has quick code, a GC map and a
\* mapping table but an empty vmap table, and whose second method has
\* portable code and no side table
ZeroOffsetMeansAbsentWitness ==
  /\ Constructed
  /\ \E g \in 1..Len(writer.oat_classes_) :
       LET records == writer.oat_classes_[g].method_offsets_
       IN /\ Len(records) = 2
          /\ records[1].code_offset_ > 0
          /\ records[1].gc_map_offset_ > 0
          /\ records[1].mapping_table_offset_ > 0
          /\ records[1].vmap_table_offset_ = 0
          /\ records[2].code_offset_ = 0
          /\ records[2].gc_map_offset_ = 0

\* C20: a second construction on the same dex files and the same compiled
\* methods gives the header offsets, the module descriptors with their
\* offsets and class-offset lists, the class descriptors with their
\* per-method offset records, and the size_ of the first.
LayoutDeterministic ==
  second.constructed =>
    /\ second.w.oat_header_.executable_offset_ = writer.oat_header_.executable_offset_
    /\ second.w.oat_header_.trampoline_offsets_ = writer.oat_header_.trampoline_offsets_
    /\ second.w.oat_header_.checksum_ = writer.oat_header_.checksum_
    /\ second.w.oat_dex_files_ = writer.oat_dex_files_
    /\ second.w.oat_classes_ = writer.oat_classes_
    /\ second.w.size_ = writer.size_

\* two constructions for an image build of two dex files with a class that
\* has a compiled method
LayoutDeterministicWitness ==
  /\ second.constructed
  /\ image
  /\ Len(dex_files) = 2
  /\ \E g \in 1..Len(second.w.oat_classes_) :
       /\ Len(second.w.oat_classes_[g].method_offsets_) = 1
       /\ second.w.oat_classes_[g].method_offsets_[1].code_offset_ > 0
       /\ second.w.oat_classes_[g].method_offsets_[1].vmap_table_offset_ > 0
  /\ second.w.size_ > 2 * kPageSize

\* the visits of a pass to the method in a slot of a class
VisitsOfSlot(visits, g, i) ==
  {k \in 1..Len(visits) : /\ visits[k].oat_class_index = g - 1
                          /\ visits[k].class_def_method_index = i - 1}

\* C21: a method with no compiled method is not an error: the constructor
\* and Write complete, the method has a slot in its class descriptor but no
\* per-method offset record, neither pass lays out or writes anything for
\* it, and a class none of whose methods has a compiled method is
\* NONE_COMPILED.
AbsentMethodIsNoError ==
  /\ pc # "abort"
  /\ pc = "done" => result = "true"
  /\ \A g \in 1..Len(writer.oat_classes_) :
       LET oat_class == writer.oat_classes_[g]
           n == Len(oat_class.compiled_methods_)
       IN /\ Len(oat_class.method_offsets_) = NumNonNull(oat_class)
          /\ NumNonNull(oat_class) = 0 => oat_class.type_ = kOatClassNoneCompiled
          /\ \A i \in 1..n :
               oat_class.compiled_methods_[i].is_null =>
                 /\ oat_class.oat_method_offsets_offsets_from_oat_class_[i] = 0
                 /\ VisitsOfSlot(init_visits, g, i) = {}
                 /\ VisitsOfSlot(write_visits, g, i) = {}
                 /\ oat_class.has_method_bitmap_ => (i - 1) \notin oat_class.method_bitmap_
  /\ WriteCompleted => SameVisits

\* a Write that returned true for a class with a method that has no
\* compiled method before one that has, and a class with a method of which
\* none has
AbsentMethodIsNoErrorWitness ==
  /\ pc = "done"
  /\ result = "true"
  /\ \E g \in 1..Len(writer.oat_classes_) :
       LET oat_class == writer.oat_classes_[g]
       IN /\ Len(oat_class.compiled_methods_) = 2
          /\ oat_class.compiled_methods_[1].is_null
          /\ ~oat_class.compiled_methods_[2].is_null
          /\ Len(oat_class.method_offsets_) = 1
          /\ VisitsOfSlot(write_visits, g, 2) # {}

\* the slots of the class descriptors whose compiled method has portable code
PortableSlots(w) ==
  {s \in UNION {{<<g, i>> : i \in 1..Len(w.oat_classes_[g].compiled_methods_)} :
                g \in 1..Len(w.oat_classes_)} :
     LET compiled_method == w.oat_classes_[s[1]].compiled_methods_[s[2]]
     IN ~compiled_method.is_null /\ compiled_method.portable_code_}

\* the slots whose compiled method has quick code and call frame information
CFISlots(w) ==
  {s \in UNION {{<<g, i>> : i \in 1..Len(w.oat_classes_[g].compiled_methods_)} :
                g \in 1..Len(w.oat_classes_)} :
     LET compiled_method == w.oat_classes_[s[1]].compiled_methods_[s[2]]
     IN /\ ~compiled_method.is_null
        /\ ~compiled_method.portable_code_
        /\ compiled_method.cfi_info_}

\* the laid out code start has been passed
CodeLaidOut == Constructed \/ pc = "ConstructedAgain"

\* C22 as stated: the writer only reads the results of the compilation: the
\* driver and its compiled methods are, in every state of the layout and of
\* Write, as the compilation left them.
CompiledResultsOnlyRead ==
  /\ writer.compiler_driver_ = NewCompilerDriver(image, generate_gdb_information)
  /\ second.constructed =>
       second.w.compiler_driver_ = NewCompilerDriver(image, generate_gdb_information)

\* C22, what the code does: up to the layout of the code nothing of the driver
\* changes; the layout of the code adds one oatdata offset for every compiled
\* method with portable code and, when the driver collects call frame
\* information, one entry for every method with quick code that has some; a
\* second construction adds them again; Write adds nothing.
CompiledResultsChangedByCodeLayout ==
  /\ writer.compiler_driver_.has_cfi_info_ = generate_gdb_information
  /\ pc \in {"InitOatHeader", "InitOatDexFiles", "InitDexFiles", "InitOatClasses",
             "InitOatCode", "InitOatCodeDexFiles"} =>
       writer.compiler_driver_ = NewCompilerDriver(image, generate_gdb_information)
  /\ CodeLaidOut =>
       /\ Len(writer.compiler_driver_.oatdata_offsets_to_compiled_code_offset_)
            = Cardinality(PortableSlots(writer))
       /\ Len(writer.compiler_driver_.cfi_info_)
            = IF generate_gdb_information THEN Cardinality(CFISlots(writer)) ELSE 0
  /\ second.constructed =>
       /\ Len(second.w.compiler_driver_.oatdata_offsets_to_compiled_code_offset_)
            = 2 * Cardinality(PortableSlots(writer))
       /\ Len(second.w.compiler_driver_.cfi_info_)
            = IF generate_gdb_information THEN 2 * Cardinality(CFISlots(writer)) ELSE 0

\* two constructions with a driver that collects call frame information,
\* for a method with quick code that has some: each construction added an
\* entry to the driver's vector
CompiledResultsChangedWitness ==
  /\ second.constructed
  /\ generate_gdb_information
  /\ CFISlots(writer) # {}
  /\ Len(writer.compiler_driver_.cfi_info_) = 1
  /\ writer.compiler_driver_.cfi_info_[1] > 0
  /\ Len(second.w.compiler_driver_.cfi_info_) = 2

\* CompileAll has returned: the constructor of the writer, or Write, runs
CompileAllReturned == pc # "CompileAll"

NonNullUpTo(oat_class, i) ==
  Cardinality({j \in 1..i : ~oat_class.compiled_methods_[j].is_null})

Repeated(k) ==
  \E j \in 1..(k - 1) : /\ init_visits[j].kind = init_visits[k].kind
                        /\ init_visits[j].blob = init_visits[k].blob

\* offset_ and the number of UpdateChecksum calls when the layout's k-th
\* visit returned: those the next visit was entered with, and the writer's
\* after the last
LeftAt(k) ==
  IF k < Len(init_visits) THEN init_visits[k + 1].entered ELSE writer.size_

FoldedAt(k) ==
  IF k < Len(init_visits) THEN init_visits[k + 1].folded
  ELSE Len(writer.oat_header_.checksum_)

\* C25 as stated: the layout of a method whose blob is already in the dedup
\* table of its kind leaves offset_ and the checksum as they were.
DedupLeavesCursor ==
  Constructed =>
    \A k \in 1..Len(init_visits) :
      Repeated(k) =>
        /\ LeftAt(k) = init_visits[k].entered
        /\ FoldedAt(k) = init_visits[k].folded

\* C25, what the code does: the layout of code first aligns offset_, whether
\* the code is in the table or not; after that a blob already in the table
\* (and a side table that is empty) leaves offset_ and the checksum as they
\* are, and a new blob advances offset_ by its size (code: and its method
\* header's) and is folded into the checksum (code: after its header).
DedupLeavesCursorButPadding ==
  Constructed =>
    \A k \in 1..Len(init_visits) :
      LET v == init_visits[k]
      IN /\ v.cursor = IF v.kind = "code" THEN AlignCode(v.entered, instruction_set)
                                         ELSE v.entered
         /\ IF Repeated(k) \/ BlobSize(v.blob) = 0
            THEN /\ LeftAt(k) = v.cursor
                 /\ FoldedAt(k) = v.folded
            ELSE /\ LeftAt(k) = v.cursor + BlobSize(v.blob)
                                 + (IF v.kind = "code" THEN SizeofOatMethodHeader ELSE 0)
                 /\ FoldedAt(k) = v.folded + (IF v.kind = "code" THEN 2 ELSE 1)
                 /\ writer.oat_header_.checksum_[FoldedAt(k)].what = <<v.kind, v.blob>>

\* a layout with a method whose code is in the table already and which is
\* entered at an offset that is not aligned: offset_ moves
DedupMovesCursorWitness ==
  /\ Constructed
  /\ \E k \in 1..Len(init_visits) :
       /\ init_visits[k].kind = "code"
       /\ Repeated(k)
       /\ LeftAt(k) > init_visits[k].entered
       /\ FoldedAt(k) = init_visits[k].folded

\* the DCHECK_OFFSET sites the Write has come to, by what they follow or
\* precede
DChecksAt(name) ==
  {k \in 1..Len(out.dchecks) : out.dchecks[k].site[1] = name}

\* C26: on a sink whose operations succeed every DCHECK_OFFSET and
\* DCHECK_OFFSET_ that Write comes to finds the sink at file_offset plus the
\* relative offset it compares with; a completed Write came to one before
\* every module descriptor and every class descriptor, one after the seek to
\* the executable offset, one after every trampoline of an image build, and
\* one after the code and after each side table of every compiled method
\* with quick code.
DCheckOffsetsHold ==
  /\ \A k \in 1..Len(out.dchecks) :
       out.dchecks[k].position = file_offset + out.dchecks[k].relative_offset
  /\ WriteCompleted =>
       /\ Cardinality(DChecksAt("OatDexFile")) = Len(writer.oat_dex_files_)
       /\ Cardinality(DChecksAt("OatClass")) = Len(writer.oat_classes_)
       /\ Cardinality(DChecksAt("seek_executable_offset")) = 1
       /\ \A t \in 1..Len(TrampolineNames) :
            Cardinality(DChecksAt(TrampolineNames[t])) = IF image THEN 1 ELSE 0
       /\ Cardinality(DChecksAt("code"))
            = Cardinality({k \in 1..Len(write_visits) : write_visits[k].kind = "code"})
       /\ \A m \in 1..Len(MapKinds) :
            Cardinality(DChecksAt(MapKinds[m]))
              = Cardinality({k \in 1..Len(write_visits) : write_visits[k].kind = MapKinds[m]})
       /\ Cardinality(DChecksAt("method_header"))
            = Cardinality({k \in 1..Len(write_visits) :
                             write_visits[k].kind = "code" /\ write_visits[k].acted})

\* a completed Write, to a sink that was not at 0, of an image build with two
\* dex files, a class and code that was written after alignment padding
DCheckOffsetsHoldWitness ==
  /\ pc = "done"
  /\ result = "true"
  /\ image
  /\ file_offset > 0
  /\ Len(writer.oat_dex_files_) = 2
  /\ DChecksAt("OatClass") # {}
  /\ DChecksAt("code_alignment_padding") # {}
  /\ DChecksAt("method_header") # {}
  /\ DChecksAt("gc_map") # {}

\* the stages of the constructor, in the order of its calls, and what
\* follows them
LayoutStages ==
  <<"InitOatHeader", "InitOatDexFiles", "InitDexFiles", "InitOatClasses", "InitOatCode",
    "InitOatCodeDexFiles", "Write">>

StageIndex(stage) == CHOOSE k \in 1..Len(LayoutStages) : LayoutStages[k] = stage

\* a step of the constructor: the stage at pc runs on the running offset and
\* leaves the offset it returns
LayoutStep ==
  /\ pc' = LayoutStages[StageIndex(pc) + 1]
  /\ offset' >= offset
  /\ pc = "InitOatHeader" => offset = 0
  /\ (pc = "InitOatDexFiles" /\ dex_files # <<>>) =>
       writer'.oat_dex_files_[1].offset_ = offset
  /\ (pc = "InitDexFiles" /\ dex_files # <<>>) =>
       writer'.oat_dex_files_[1].dex_file_offset_ = RoundUp(offset, kDexAlignment)
  /\ (pc = "InitOatClasses" /\ writer'.oat_classes_ # <<>>) =>
       writer'.oat_classes_[1].offset_ = offset
  /\ pc = "InitOatCode" =>
       writer'.oat_header_.executable_offset_ = RoundUp(offset, kPageSize)
  /\ (pc = "InitOatCodeDexFiles" /\ init_visits' # <<>>) =>
       init_visits'[1].entered = offset
  /\ pc = "InitOatCodeDexFiles" => writer'.size_ = offset'

\* C27: the stages of the layout run once each in the order header, module
\* descriptors, dex files, class descriptors, start of the executable region
\* with the trampolines, code and side tables; each starts at the offset the
\* stage before it returned and returns one that is not smaller.
LayoutStagesInOrder ==
  [][(pc # "Write" /\ \E k \in 1..Len(LayoutStages) : LayoutStages[k] = pc) => LayoutStep]_vars

\* a constructed writer of an image build for two dex files and a class with
\* a compiled method, whose size_ is past the trampolines
LayoutStagesInOrderWitness ==
  /\ pc = "Write"
  /\ image
  /\ Len(writer.oat_dex_files_) = 2
  /\ init_visits # <<>>
  /\ writer.size_ = offset
  /\ offset > writer.oat_header_.executable_offset_
  /\ writer.oat_header_.executable_offset_ > writer.oat_classes_[1].offset_

\* the WriteFully calls of the Write that passed what
WritesOf(what) == {k \in 1..Len(out.log) : out.log[k].what = what}

\* WriteTables has returned true
TablesWritten == pc \in {"WriteCode", "WriteCodeDexFiles"} \/ WriteCompleted

\* C28: Write writes the bytes of every dex file once, at file_offset plus
\* the dex_file_offset_ of its descriptor; the regions of the dex files do
\* not overlap and begin at or after the end of the last module descriptor,
\* and the first class descriptor is laid out, and written, exactly at the
\* end of the last dex file.
DexFilesWrittenAtOffsets ==
  TablesWritten =>
    LET n == Len(writer.oat_dex_files_)
        start == [i \in 1..n |-> writer.oat_dex_files_[i].dex_file_offset_]
        end == [i \in 1..n |-> start[i] + dex_files[i].file_size]
    IN /\ n = Len(dex_files)
       /\ \A i \in 1..n :
            /\ Cardinality(WritesOf(<<"dex_file", i>>)) = 1
            /\ \A k \in WritesOf(<<"dex_file", i>>) :
                 /\ out.log[k].pos = file_offset + start[i]
                 /\ out.log[k].size = dex_files[i].file_size
            /\ start[i] >= writer.oat_dex_files_[n].offset_
                             + OatDexFileSizeOf(writer.oat_dex_files_[n])
            /\ \A j \in (i + 1)..n : end[i] <= start[j]
       /\ (n > 0 /\ writer.oat_classes_ # <<>>) =>
            /\ writer.oat_classes_[1].offset_ = end[n]
            /\ \A k \in WritesOf(<<"status_", 1>>) : out.log[k].pos = file_offset + end[n]
            /\ WritesOf(<<"status_", 1>>) # {}

\* a completed Write to a sink that was not at 0 of two dex files, the
\* second of which is laid out after alignment padding, and a class
DexFilesWrittenAtOffsetsWitness ==
  /\ pc = "done"
  /\ result = "true"
  /\ file_offset > 0
  /\ Len(dex_files) = 2
  /\ writer.oat_classes_ # <<>>
  /\ writer.oat_dex_files_[2].dex_file_offset_
       > writer.oat_dex_files_[1].dex_file_offset_ + dex_files[1].file_size
  /\ WritesOf(<<"dex_file", 2>>) # {}

\* the fields of a module descriptor, in the order of OatDexFile::Write
OatDexFileFieldNames ==
  {"dex_file_location_size_", "dex_file_location_data_", "dex_file_location_checksum_",
   "dex_file_offset_", "methods_offsets_"}

\* the bytes of the i-th module descriptor as it is now, field by field
OatDexFileBytes(i) ==
  LET odf == writer.oat_dex_files_[i]
  IN <<[what |-> <<"dex_file_location_size_", i>>, size |-> SizeofUint32],
       [what |-> <<"dex_file_location_data_", i>>, size |-> odf.dex_file_location_size_],
       [what |-> <<"dex_file_location_checksum_", i>>, size |-> SizeofUint32],
       [what |-> <<"dex_file_offset_", i, odf.dex_file_offset_>>, size |-> SizeofUint32],
       [what |-> <<"methods_offsets_", i, odf.methods_offsets_>>,
        size |-> SizeofUint32 * Len(odf.methods_offsets_)]>>

\* the entries of a log of folds or of writes that are of the i-th module
\* descriptor
OfOatDexFile(log, i) ==
  LET own == SelectSeq(log, LAMBDA e : /\ e.what[1] \in OatDexFileFieldNames
                                        /\ e.what[2] = i)
  IN [k \in 1..Len(own) |-> [what |-> own[k].what, size |-> own[k].size]]

\* the i-th module descriptor has been folded into the checksum
OatDexFileFolded(i) == OfOatDexFile(writer.oat_header_.checksum_, i) # <<>>

\* C29: a module descriptor is folded into the checksum once, with the
\* dex_file_offset_ InitDexFiles gave it and with the offset_ of each of its
\* class descriptors in methods_offsets_; no field of it changes in any step
\* after the fold; and what Write writes of it is, field by field, what was
\* folded.
OatDexFileFoldedWhenFinal ==
  /\ [](\A i \in 1..Len(writer.oat_dex_files_) :
          OatDexFileFolded(i) =>
            /\ OfOatDexFile(writer.oat_header_.checksum_, i) = OatDexFileBytes(i)
            /\ writer.oat_dex_files_[i].dex_file_offset_
                 >= writer.oat_dex_files_[i].offset_
                      + OatDexFileSizeOf(writer.oat_dex_files_[i])
            /\ Len(writer.oat_dex_files_[i].methods_offsets_) = Len(dex_files[i].class_defs)
            /\ \A k \in 1..Len(writer.oat_dex_files_[i].methods_offsets_) :
                 writer.oat_dex_files_[i].methods_offsets_[k]
                   = writer.oat_classes_[ClassesBefore(i) + k].offset_
            /\ TablesWritten =>
                 OfOatDexFile(out.log, i) = OfOatDexFile(writer.oat_header_.checksum_, i))
  /\ [][\A i \in 1..Len(writer.oat_dex_files_) :
          OatDexFileFolded(i) =>
            /\ i \in DOMAIN writer'.oat_dex_files_
            /\ writer'.oat_dex_files_[i] = writer.oat_dex_files_[i]
            /\ OfOatDexFile(writer'.oat_header_.checksum_, i)
                 = OfOatDexFile(writer.oat_header_.checksum_, i)]_vars

\* a Write that returned true, of two dex files the first of which has two
\* classes, whose descriptors were folded in during the layout
OatDexFileFoldedWhenFinalWitness ==
  /\ pc = "done"
  /\ result = "true"
  /\ Len(dex_files) = 2
  /\ Len(writer.oat_dex_files_[1].methods_offsets_) = 2
  /\ writer.oat_dex_files_[1].methods_offsets_[1] < writer.oat_dex_files_[1].methods_offsets_[2]
  /\ OatDexFileFolded(1) /\ OatDexFileFolded(2)
  /\ OfOatDexFile(out.log, 2) = OatDexFileBytes(2)

\* the positions of OatWriter::Write
WritePositions == {"Write", "WriteTables", "WriteCode", "WriteCodeDexFiles", "WriteFinish"}

\* the members Write adds to or assigns
SizeStatistics ==
  {"size_oat_header_", "size_oat_header_image_file_location_", "size_dex_file_",
   "size_trampolines_", "size_trampoline_alignment_", "size_method_header_",
   "size_code_", "size_code_alignment_", "size_mapping_table_", "size_vmap_table_",
   "size_gc_map_", "size_oat_dex_file_location_size_",
   "size_oat_dex_file_location_data_", "size_oat_dex_file_location_checksum_",
   "size_oat_dex_file_offset_", "size_oat_dex_file_methods_offsets_",
   "size_oat_class_type_", "size_oat_class_status_", "size_oat_class_method_bitmaps_",
   "size_oat_class_method_offsets_"}

\* C30: no step of Write changes a member of the writer other than the size
\* statistics: the header with its checksum, executable offset and
\* trampoline offsets, the module descriptors, the class descriptors with
\* their method offsets, the dedup tables, size_ and the driver stay as the
\* layout left them, and so do the dex files and the layout cursor.
WriteChangesOnlyStatistics ==
  [][(pc \in WritePositions) =>
       (/\ DOMAIN writer' = DOMAIN writer
        /\ \A f \in DOMAIN writer : writer'[f] # writer[f] => f \in SizeStatistics
        /\ inputs' = inputs
        /\ offset' = offset
        /\ init_visits' = init_visits)]_vars

\* a Write of an image that returned true and counted a header, a module
\* descriptor, a class descriptor, trampolines, code and a side table,
\* with the header, the descriptors and the dedup tables of the layout
WriteChangesOnlyStatisticsWitness ==
  /\ pc = "done"
  /\ result = "true"
  /\ image
  /\ writer.size_oat_header_ = SizeofOatHeader
  /\ writer.size_oat_dex_file_offset_ > 0
  /\ writer.size_oat_class_status_ > 0
  /\ writer.size_trampolines_[1] > 0
  /\ writer.size_code_ > 0
  /\ writer.size_gc_map_ > 0
  /\ writer.oat_header_.executable_offset_ > 0
  /\ writer.oat_header_.trampoline_offsets_[1] > 0
  /\ writer.oat_header_.checksum_ # <<>>
  /\ writer.code_offsets_ # <<>>
  /\ writer.oat_classes_ # <<>>
  /\ writer.size_ = relative_offset

\* the visits a pass of the given kind made to methods of the g-th class
VisitsOfClass(visits, kind, g) ==
  {k \in 1..Len(visits) : visits[k].kind = kind /\ visits[k].oat_class_index = g - 1}

\* the slots of the g-th class a pass of the given kind has a record for:
\* those with a compiled method, which for the code passes has quick code
SlotsWithRecord(kind, g) ==
  {i \in 1..Len(writer.oat_classes_[g].compiled_methods_) :
     /\ ~writer.oat_classes_[g].compiled_methods_[i].is_null
     /\ kind = "code" => writer.oat_classes_[g].compiled_methods_[i].quick_code_ # NullPtr}

\* in the visits of a log every pass used, for the method in slot i, the
\* record whose index is the number of compiled methods in the slots before
\* i, which lies in method_offsets_, and visited every slot with a record
RecordsWalked(visits) ==
  \A g \in 1..Len(writer.oat_classes_) :
    \A n \in 1..4 :
      LET kind == <<"code", "gc_map", "mapping_table", "vmap_table">>[n]
          oat_class == writer.oat_classes_[g]
      IN /\ {visits[k].class_def_method_index + 1 : k \in VisitsOfClass(visits, kind, g)}
              = SlotsWithRecord(kind, g)
         /\ \A k \in VisitsOfClass(visits, kind, g) :
              /\ visits[k].method_offsets_index + 1
                   = NonNullUpTo(oat_class, visits[k].class_def_method_index + 1)
              /\ visits[k].method_offsets_index < Len(oat_class.method_offsets_)
         /\ \A k, l \in VisitsOfClass(visits, kind, g) :
              k < l => visits[k].method_offsets_index < visits[l].method_offsets_index

\* C31: a class has one OatMethodOffsets per compiled method; every layout
\* pass and every write pass uses for the method in slot i the record
\* numbered by the compiled methods before it, never one past the end, and
\* has used the last record when the class ends; the image pass hands the
\* ArtMethod of slot i that same record.
RecordPerCompiledMethod ==
  /\ Constructed =>
       /\ \A g \in 1..Len(writer.oat_classes_) :
            LET oat_class == writer.oat_classes_[g]
            IN /\ Len(oat_class.method_offsets_)
                    = NonNullUpTo(oat_class, Len(oat_class.compiled_methods_))
               /\ image =>
                    \A i \in 1..Len(oat_class.compiled_methods_) :
                      ~oat_class.compiled_methods_[i].is_null =>
                        writer.art_methods_[<<g - 1, i - 1>>].code_offset_
                          = oat_class.method_offsets_[NonNullUpTo(oat_class, i)].code_offset_
       /\ RecordsWalked(init_visits)
  /\ WriteCompleted => RecordsWalked(write_visits)

\* a completed Write for a class whose first method is portable and whose
\* second has quick code: the code passes visited the second only, with the
\* second record, and the side-table passes both
RecordPerCompiledMethodWitness ==
  /\ pc = "done"
  /\ result = "true"
  /\ \E g \in 1..Len(writer.oat_classes_) :
       /\ Len(writer.oat_classes_[g].method_offsets_) = 2
       /\ writer.oat_classes_[g].compiled_methods_[1].portable_code_
       /\ Cardinality(VisitsOfClass(write_visits, "code", g)) = 1
       /\ Cardinality(VisitsOfClass(write_visits, "gc_map", g)) = 2
       /\ \E k \in VisitsOfClass(write_visits, "code", g) :
            write_visits[k].method_offsets_index = 1

RECURSIVE SizeOfBlobs(_)
\* the sizes of the blobs of a set, added up
SizeOfBlobs(blobs) ==
  IF blobs = {} THEN 0
  ELSE LET b == CHOOSE x \in blobs : TRUE
       IN BlobSize(b) + SizeOfBlobs(blobs \ {b})

\* the side tables of a kind, not empty, that the compiled methods of the
\* classes have
BlobsOfKind(kind) ==
  {b \in UNION {{BinderGetMap(kind, writer.oat_classes_[g].compiled_methods_[i]) :
                   i \in {j \in 1..Len(writer.oat_classes_[g].compiled_methods_) :
                            ~writer.oat_classes_[g].compiled_methods_[j].is_null}} :
                g \in 1..Len(writer.oat_classes_)} : BlobSize(b) > 0}

\* the writes of side tables of a kind
WritesOfKind(kind) == {k \in 1..Len(out.log) : out.log[k].what[1] = kind}

\* where the layout began the region of the n-th kind of side table: the
\* offset with which the first visit of its pass was entered, and size_
\* after the last region
RegionStart(n) ==
  IF n > Len(MapKinds) \/ \A k \in 1..Len(init_visits) : init_visits[k].kind # MapKinds[n]
  THEN writer.size_
  ELSE init_visits[CHOOSE k \in 1..Len(init_visits) :
                     /\ init_visits[k].kind = MapKinds[n]
                     /\ \A j \in 1..(k - 1) : init_visits[j].kind # MapKinds[n]].entered

\* the statistic WriteCodeDexFiles assigns for the n-th kind
RegionStatistic(n) ==
  IF n = 1 THEN writer.size_gc_map_
  ELSE IF n = 2 THEN writer.size_mapping_table_
  ELSE writer.size_vmap_table_

\* C32: after a Write that made all its writes, the region of each kind of
\* side table is as long as its distinct non-empty blobs together: the
\* layout reserved that length, Write wrote each such blob once and no
\* other, one after the other from the start of the region, and the
\* statistic of the region has that length.
RegionOfDistinctBlobs ==
  WriteCompleted =>
    \A n \in 1..Len(MapKinds) :
      /\ RegionStart(n + 1) - RegionStart(n) = SizeOfBlobs(BlobsOfKind(MapKinds[n]))
      /\ RegionStatistic(n) = RegionStart(n + 1) - RegionStart(n)
      /\ {out.log[k].what[2] : k \in WritesOfKind(MapKinds[n])} = BlobsOfKind(MapKinds[n])
      /\ \A k, l \in WritesOfKind(MapKinds[n]) :
           /\ out.log[k].what = out.log[l].what => k = l
           /\ file_offset + RegionStart(n) <= out.log[k].pos
           /\ out.log[k].pos + out.log[k].size <= file_offset + RegionStart(n + 1)
           /\ k < l => out.log[k].pos + out.log[k].size <= out.log[l].pos

\* a Write that returned true for two methods that share a GC map of 32
\* bytes and have different mapping tables: the region of the GC maps is 32
\* bytes long
RegionOfDistinctBlobsWitness ==
  /\ pc = "done"
  /\ result = "true"
  /\ Cardinality({k \in 1..Len(write_visits) : write_visits[k].kind = "gc_map"}) = 2
  /\ Cardinality(BlobsOfKind("gc_map")) = 1
  /\ Cardinality(BlobsOfKind("mapping_table")) = 2
  /\ writer.size_gc_map_ = SizeOfBlobs(BlobsOfKind("gc_map"))
  /\ writer.size_gc_map_ = 32

\* every code body Write wrote comes right after a method header for that
\* code, and every method header is followed by its code
CodeAfterMethodHeader ==
  \A k \in 1..Len(out.log) :
    /\ out.log[k].what[1] = "code" =>
         /\ k > 1
         /\ out.log[k - 1].what = <<"method_header", out.log[k].what[2]>>
         /\ out.log[k - 1].size = SizeofOatMethodHeader
         /\ out.log[k - 1].pos + SizeofOatMethodHeader = out.log[k].pos
         /\ out.log[k].size = BlobSize(out.log[k].what[2])
    /\ out.log[k].what[1] = "method_header" =>
         /\ k < Len(out.log)
         /\ out.log[k + 1].what = <<"code", out.log[k].what[2]>>

RECURSIVE SizeOfWrites(_)
\* the byte counts of a set of writes of the log, added up
SizeOfWrites(ks) ==
  IF ks = {} THEN 0
  ELSE LET k == CHOOSE x \in ks : TRUE
       IN out.log[k].size + SizeOfWrites(ks \ {k})

\* C33 as stated: every code body follows its method header, and every byte
\* of alignment padding, before code, trampolines, dex files and the
\* executable region, was written to the sink: Write skips nothing.
PaddingWritten ==
  WriteCompleted =>
    /\ CodeAfterMethodHeader
    /\ out.skipped = 0

\* what holds of C33: every code body follows its method header; the
\* padding before code is written, from kPadding; the padding before the
\* dex files, before the executable region and before the trampolines is
\* skipped with Seek and never written, so that Write writes size_ less
\* these three statistics.
PaddingWrittenBeforeCodeOnly ==
  WriteCompleted =>
    /\ CodeAfterMethodHeader
    /\ SizeOfWrites({k \in 1..Len(out.log) : out.log[k].what[1] = "code_alignment_padding"})
         = writer.size_code_alignment_
    /\ out.skipped = writer.size_dex_file_alignment_
                       + writer.size_executable_offset_alignment_
                       + writer.size_trampoline_alignment_
    /\ out.written = writer.size_ - out.skipped

\* a Write of an image that returned true, wrote padding before code and
\* skipped padding before a dex file, before the executable region and
\* before a trampoline
PaddingSkippedWitness ==
  /\ pc = "done"
  /\ result = "true"
  /\ image
  /\ writer.size_code_alignment_ > 0
  /\ writer.size_dex_file_alignment_ > 0
  /\ writer.size_executable_offset_alignment_ > 0
  /\ writer.size_trampoline_alignment_ > 0
  /\ out.skipped > 0
  /\ \E k \in 1..Len(out.log) : out.log[k].what[1] = "code"

RECURSIVE SizeOfTrampolines(_)
\* the size statistics of the first k trampolines, added up
SizeOfTrampolines(k) ==
  IF k = 0 THEN 0 ELSE writer.size_trampolines_[k] + SizeOfTrampolines(k - 1)

\* size_total of Write's DO_STAT list
SizeTotal ==
  writer.size_dex_file_alignment_ + writer.size_executable_offset_alignment_
  + writer.size_oat_header_ + writer.size_oat_header_image_file_location_
  + writer.size_dex_file_ + SizeOfTrampolines(Len(TrampolineNames))
  + writer.size_trampoline_alignment_ + writer.size_method_header_
  + writer.size_code_ + writer.size_code_alignment_
  + writer.size_mapping_table_ + writer.size_vmap_table_ + writer.size_gc_map_
  + writer.size_oat_dex_file_location_size_ + writer.size_oat_dex_file_location_data_
  + writer.size_oat_dex_file_location_checksum_ + writer.size_oat_dex_file_offset_
  + writer.size_oat_dex_file_methods_offsets_
  + writer.size_oat_class_type_ + writer.size_oat_class_status_
  + writer.size_oat_class_method_bitmaps_ + writer.size_oat_class_method_offsets_

\* C34: when the Write of a writer that was just constructed has made all
\* its writes, the size statistics of the sections add up to size_, the
\* bytes written and skipped, and each statistic of a written section is
\* the byte count of the writes of that section.
StatisticsAddUpToSize ==
  WriteCompleted =>
    /\ SizeTotal = writer.size_
    /\ SizeTotal = out.written + out.skipped
    /\ writer.size_oat_header_ = SizeofOatHeader
    /\ writer.size_oat_class_method_bitmaps_
         = SizeOfWrites({k \in 1..Len(out.log) :
                           out.log[k].what[1] \in {"method_bitmap_size_", "method_bitmap_"}})
    /\ writer.size_dex_file_
         = SizeOfWrites({k \in 1..Len(out.log) : out.log[k].what[1] = "dex_file"})
    /\ writer.size_code_
         = SizeOfWrites({k \in 1..Len(out.log) : out.log[k].what[1] = "code"})

\* a Write of an image that returned true with every kind of section: a dex
\* file after padding, a class with a bitmap, trampolines, code after
\* padding and the three side tables
StatisticsAddUpToSizeWitness ==
  /\ pc = "done"
  /\ result = "true"
  /\ image
  /\ writer.size_dex_file_alignment_ > 0
  /\ writer.size_oat_class_method_bitmaps_ > 0
  /\ writer.size_oat_class_method_offsets_ > 0
  /\ writer.size_trampoline_alignment_ > 0
  /\ writer.size_code_alignment_ > 0
  /\ writer.size_gc_map_ > 0
  /\ writer.size_mapping_table_ > 0
  /\ writer.size_vmap_table_ > 0
  /\ SizeTotal > kPageSize

\* the sections of the file, in the order of the layout
SectionRank(what) ==
  IF what[1] \in {"oat_header_", "image_file_location_"} THEN 1
  ELSE IF what[1] \in OatDexFileFieldNames THEN 2
  ELSE IF what[1] = "dex_file" THEN 3
  ELSE IF what[1] \in {"status_", "type_", "method_bitmap_size_", "method_bitmap_",
                       "method_offsets_"} THEN 4
  ELSE IF \E k \in 1..Len(TrampolineNames) : TrampolineNames[k] = what[1] THEN 5
  ELSE IF what[1] \in {"code_alignment_padding", "method_header", "code"} THEN 6
  ELSE IF what[1] = "gc_map" THEN 7
  ELSE IF what[1] = "mapping_table" THEN 8
  ELSE IF what[1] = "vmap_table" THEN 9
  ELSE 0

\* C35: at every point of a Write, each write it has made lies within
\* [file_offset, file_offset + size_), begins at or after the end of every
\* write before it, so that no position is written twice, and is of the
\* same section as the write before it or of a later one.
WritesDisjointAndIncreasing ==
  \A l \in 1..Len(out.log) :
    /\ SectionRank(out.log[l].what) > 0
    /\ file_offset <= out.log[l].pos
    /\ out.log[l].pos + out.log[l].size <= file_offset + writer.size_
    /\ \A k \in 1..(l - 1) :
         /\ out.log[k].pos + out.log[k].size <= out.log[l].pos
         /\ SectionRank(out.log[k].what) <= SectionRank(out.log[l].what)

\* a Write of an image to a sink that was not at 0, which returned true and
\* wrote every section: the last write ends at file_offset + size_
WritesDisjointAndIncreasingWitness ==
  /\ pc = "done"
  /\ result = "true"
  /\ image
  /\ file_offset > 0
  /\ {SectionRank(out.log[k].what) : k \in 1..Len(out.log)} = 1..9
  /\ out.log[Len(out.log)].pos + out.log[Len(out.log)].size = file_offset + writer.size_

\* the tasks of the ForAll have all left Run
ForAllTasksFinished ==
  /\ manager.started
  /\ \A t \in DOMAIN manager.tasks : manager.tasks[t].at = "finished"

\* C36: in a ForAll(begin, end, callback, work_units) the callback is never
\* invoked twice for an index and never for an index outside [begin, end);
\* every task comes to the end of its Run and ForAll returns, and by then
\* the callback has been invoked exactly once for every index of [begin, end).
ForAllCallsEachIndexOnce ==
  /\ [](\A i \in DOMAIN manager.called :
          /\ manager.called[i] <= 1
          /\ manager.called[i] = 1 => manager.begin <= i - 1 /\ i - 1 < manager.end_
          /\ ForAllTasksFinished /\ manager.begin <= i - 1 /\ i - 1 < manager.end_
               => manager.called[i] = 1)
  /\ [](manager.returned => ForAllTasksFinished)
  /\ ((pc = "ForAll") ~> (ForAllTasksFinished /\ manager.returned))

\* a ForAll over two indices with three tasks that has returned: each index
\* was given out once, and each task took one more from index_ to leave
ForAllCallsEachIndexOnceWitness ==
  /\ pc = "ForAll"
  /\ manager.returned
  /\ manager.work_units = 3
  /\ manager.begin = 0
  /\ manager.end_ = 2
  /\ manager.called[1] = 1
  /\ manager.called[2] = 1
  /\ manager.index_ = manager.end_ + manager.work_units
  /\ driver.puts # {}

\* the encoded methods of the class definition at index, direct ones first
EncodedMethods(index) ==
  ManagerClassDef(index).direct_methods \o ManagerClassDef(index).virtual_methods

\* the encoded method at pos repeats the method_idx of the one before it in
\* the same list of its class
RepeatsPrevious(index, pos) ==
  /\ pos > 1
  /\ pos # Len(ManagerClassDef(index).direct_methods) + 1
  /\ EncodedMethods(index)[pos - 1] = EncodedMethods(index)[pos]

\* the calls of CompileMethod that CompileClass makes with a method the
\* backend compiles, over the class definitions [begin, end)
CompileMethodCalls ==
  {c \in (0..(Len(dex_files[1].class_defs) - 1)) \X (1..MaxForAllMethods) :
     /\ manager.begin <= c[1]
     /\ c[1] < manager.end_
     /\ c[2] <= Len(EncodedMethods(c[1]))
     /\ ~RepeatsPrevious(c[1], c[2])
     /\ ~GetCompiledMethod(EncodedMethods(c[1])[c[2]]).is_null}

\* C37 as claimed: no Put of CompileMethod finds an entry for its reference,
\* and no DCHECK before a Put fails.
PutNeverFindsEntry ==
  /\ \A p \in driver.puts : ~p.had_entry
  /\ driver.dchecks = {}

\* C37, what holds: CompileMethod is called once for every run of equal
\* method indices of a list, so that a Put is made for the encoded methods
\* that do not repeat the one before them in their list, and for no other;
\* a Put finds an entry, or the DCHECK before it fails, only when another of
\* these calls has the same reference, and then the table keeps one entry.
PutOncePerRunOfEqualIndices ==
  pc = "ForAll" =>
    /\ \A p \in driver.puts :
         /\ <<p.index, p.pos>> \in CompileMethodCalls
         /\ p.ref = <<1, EncodedMethods(p.index)[p.pos]>>
         /\ p.had_entry =>
              \E q \in driver.puts :
                q.ref = p.ref /\ ~q.had_entry /\ <<q.index, q.pos>> # <<p.index, p.pos>>
    /\ \A d \in driver.dchecks :
         \E c \in CompileMethodCalls :
           c # <<d.index, d.pos>> /\ EncodedMethods(c[1])[c[2]] = d.ref[2]
    /\ \A i, j \in DOMAIN driver.compiled_methods_ :
         driver.compiled_methods_[i].key = driver.compiled_methods_[j].key => i = j
    /\ (\A c, e \in CompileMethodCalls :
          EncodedMethods(c[1])[c[2]] = EncodedMethods(e[1])[e[2]] => c = e)
         => PutNeverFindsEntry
    /\ manager.returned =>
         {<<p.index, p.pos>> : p \in driver.puts} = CompileMethodCalls

\* a ForAll that has returned from a class whose direct methods are 1, 1:
\* one Put, for the first of them, which found no entry
PutOncePerRunOfEqualIndicesWitness ==
  /\ pc = "ForAll"
  /\ manager.returned
  /\ manager.work_units > 1
  /\ \E c \in DOMAIN dex_files[1].class_defs :
       /\ dex_files[1].class_defs[c].direct_methods = <<1, 1>>
       /\ {p \in driver.puts : p.index = c - 1}
            = {[ref |-> <<1, 1>>, index |-> c - 1, pos |-> 1, had_entry |-> FALSE]}
  /\ PutNeverFindsEntry

\* the value of a status of mirror::Class::Status
StatusValue(status) ==
  (CHOOSE i \in DOMAIN ClassStatusOrder : ClassStatusOrder[i] = status) - 2

\* the statuses the switch of RecordClassStatus expects
ExpectedStatuses ==
  {kStatusNotReady, "kStatusError", "kStatusRetryVerificationAtRuntime",
   "kStatusVerified", "kStatusInitialized"}

\* a call of RecordClassStatus was made, for a class with a recorded status
CalledWithEntry ==
  /\ pc = "RecordClassStatus"
  /\ driver.last.status # "none"
  /\ driver.last.before # "none"

\* C38 as claimed: after a call of RecordClassStatus for a class with a
\* recorded status, the status is unchanged when the call had the same
\* status, is the status of the call when that was higher, and the call
\* aborted and left the status when it was lower.
HigherStatusReplaces ==
  CalledWithEntry =>
    /\ driver.last.status = driver.last.before =>
         ~driver.aborted /\ driver.compiled_classes_[driver.last.ref] = driver.last.before
    /\ StatusValue(driver.last.status) > StatusValue(driver.last.before) =>
         ~driver.aborted /\ driver.compiled_classes_[driver.last.ref] = driver.last.status
    /\ StatusValue(driver.last.status) < StatusValue(driver.last.before) =>
         driver.aborted /\ driver.compiled_classes_[driver.last.ref] = driver.last.before

\* C38, what holds: no call of RecordClassStatus from any thread removes or
\* lowers the recorded status of a class. A call with the recorded status
\* changes nothing; a call with a higher status replaces it when the status
\* is one of the five the switch expects and aborts when it is another one;
\* a call with a lower status aborts; and the first call for a class
\* records an expected status and aborts for another one.
RecordedStatusNeverDecreases ==
  /\ [](pc = "RecordClassStatus" /\ driver.last.status # "none" =>
          /\ driver.last.status = driver.last.before =>
               /\ ~driver.aborted
               /\ driver.compiled_classes_[driver.last.ref] = driver.last.before
          /\ driver.last.status # driver.last.before =>
               IF /\ driver.last.status \in ExpectedStatuses
                  /\ \/ driver.last.before = "none"
                     \/ StatusValue(driver.last.status) > StatusValue(driver.last.before)
               THEN /\ ~driver.aborted
                    /\ driver.compiled_classes_[driver.last.ref] = driver.last.status
               ELSE /\ driver.aborted
                    /\ driver.compiled_classes_[driver.last.ref] = driver.last.before)
  /\ [][(pc = "RecordClassStatus") =>
          (\A ref \in DOMAIN driver.compiled_classes_ :
             driver.compiled_classes_[ref] # "none" =>
               /\ driver.compiled_classes_'[ref] # "none"
               /\ StatusValue(driver.compiled_classes_'[ref])
                    >= StatusValue(driver.compiled_classes_[ref]))]_vars

\* the second thread raised a class from kStatusVerified, which the first
\* had recorded, to kStatusInitialized, and the other class has a status too
RecordedStatusNeverDecreasesWitness ==
  /\ pc = "RecordClassStatus"
  /\ ~driver.aborted
  /\ driver.last = [self |-> 2, ref |-> 0, status |-> "kStatusInitialized",
                    before |-> "kStatusVerified"]
  /\ driver.compiled_classes_[0] = "kStatusInitialized"
  /\ driver.compiled_classes_[1] = "kStatusRetryVerificationAtRuntime"

\* the threads call AtomicPushBack only
PushesOnly ==
  /\ pc = "AtomicStack"
  /\ \A t \in DOMAIN stack.threads :
       \A k \in DOMAIN stack.threads[t].program :
         stack.threads[t].program[k].op = "AtomicPushBack"

\* the calls that returned true
Succeeded == {r \in stack.returned : r.ret}

\* every thread has made all its calls
StackCallsFinished ==
  \A t \in DOMAIN stack.threads : stack.threads[t].at = "done"

\* C39: with threads that call only AtomicPushBack, the calls that returned
\* true stored their values in slots of their own below capacity_, and a
\* thread about to store has a slot of its own too; back_index_ is never
\* above capacity_; a call returned false only with the stack full; and
\* when all calls are finished the slots below back_index_ hold the values
\* of the calls that returned true, one each, and no other slot holds one.
PushesTakeDistinctSlots ==
  PushesOnly =>
    /\ stack.back_index_ <= stack.capacity_
    /\ \A r \in Succeeded :
         /\ r.index < stack.capacity_
         /\ r.index < stack.back_index_
         /\ stack.begin_[r.index + 1] = r.value
         /\ \A q \in Succeeded : q.index = r.index => q = r
         /\ \A t \in DOMAIN stack.threads :
              stack.threads[t].at = "PushStore" => stack.threads[t].index # r.index
    /\ \A t, u \in DOMAIN stack.threads :
         /\ stack.threads[t].at = "PushStore"
         /\ stack.threads[u].at = "PushStore"
         /\ stack.threads[t].index = stack.threads[u].index
         => t = u
    /\ \A r \in stack.returned :
         ~r.ret => r.index >= stack.capacity_ /\ stack.back_index_ = stack.capacity_
    /\ StackCallsFinished =>
         /\ Cardinality(Succeeded) = stack.back_index_
         /\ \A i \in 1..stack.capacity_ :
              IF i <= stack.back_index_
              THEN \E r \in Succeeded : r.index = i - 1 /\ stack.begin_[i] = r.value
              ELSE stack.begin_[i] = 0

\* two threads have made two calls of AtomicPushBack each on a stack of
\* three slots: three returned true and one false, and the values of both
\* threads are in the stack
PushesTakeDistinctSlotsWitness ==
  /\ PushesOnly
  /\ StackCallsFinished
  /\ stack.capacity_ = 3
  /\ Cardinality(Succeeded) = 3
  /\ Cardinality(stack.returned) = 4
  /\ stack.begin_[1] = 21
  /\ stack.begin_[2] = 11

\* the slots a call that returned true was given
SlotsOf(r) ==
  IF r.op = "AtomicPushBack" THEN {r.index} ELSE r.index..(r.new_index - 1)

\* the calls of AtomicBumpBack that have returned
Bumped == {r \in stack.returned : r.op = "AtomicBumpBack"}

\* C40 as claimed: a call of AtomicBumpBack(num_slots) returned false only
\* when back_index_ + num_slots was above capacity_.
BumpFailsOnlyOnOverflow ==
  \A r \in Bumped : ~r.ret => r.index + r.num_slots > stack.capacity_

\* C40, what holds: AtomicBumpBack(num_slots) returns false exactly when the
\* back_index_ it read plus num_slots is at or above capacity_, so also
\* when the slots would just fit, and the step that returns false leaves
\* back_index_ and the slots as they are; the ranges of the calls that
\* returned true are [index, index + num_slots), lie below capacity_, and
\* share no slot with each other or with a successful AtomicPushBack.
BumpFailsAtCapacity ==
  /\ [](pc = "AtomicStack" =>
          /\ stack.back_index_ <= stack.capacity_
          /\ \A r \in Bumped :
               /\ r.new_index = r.index + r.num_slots
               /\ r.ret <=> r.index + r.num_slots < stack.capacity_
               /\ r.ret => r.new_index <= stack.back_index_
          /\ \A r, q \in Succeeded :
               /\ \A i \in SlotsOf(r) : 0 <= i /\ i < stack.capacity_
               /\ SlotsOf(r) \cap SlotsOf(q) # {} => r = q)
  /\ [][(pc = "AtomicStack" /\ \E r \in stack.returned' \ stack.returned :
                                 r.op = "AtomicBumpBack" /\ ~r.ret)
          => (stack.back_index_' = stack.back_index_ /\ stack.begin_' = stack.begin_)]_vars

\* on a stack of three slots a call for two slots was given [0, 2); a call
\* for one slot then returned false with back_index_ at 2, and an
\* AtomicPushBack of the same thread took the slot after it
BumpFailsAtCapacityWitness ==
  /\ pc = "AtomicStack"
  /\ stack.capacity_ = 3
  /\ stack.back_index_ = 3
  /\ \E r, q, p \in stack.returned :
       /\ r.op = "AtomicBumpBack" /\ r.ret /\ r.num_slots = 2 /\ r.index = 0
       /\ q.op = "AtomicBumpBack" /\ ~q.ret /\ q.num_slots = 1 /\ q.index = 2
       /\ p.op = "AtomicPushBack" /\ p.ret /\ p.index = 2 /\ p.thread = q.thread
       /\ r.thread # q.thread

====
